---- MODULE Spec2Model ----
(***************************************************************************)
(* State machine of the glove app's sample-acquisition and word-assembly   *)
(* core (AppContent in src/unnamed/part_001) together with the children    *)
(* that drive it: ConnectionManager, SimulatorControl, PredictionView.     *)
(*                                                                         *)
(* One action is one JavaScript task: an event handler, a timer callback   *)
(* or the continuation of an await.  The render that follows a state       *)
(* change and the effects of that render are part of the same action.      *)
(* Times are in milliseconds and advance in steps of TickMs.               *)
(***************************************************************************)
EXTENDS Integers, Sequences, FiniteSets, TLC

\* ------------------------------------------------------------------ bounds
MaxCalls          == 2    \* classifier calls in one run of Spec
MaxSessionCalls   == 8    \* classifier calls in one run of SessionSpec
MaxConsensusCalls == 9    \* classifier calls in one run of ConsensusSpec
MaxLiveCalls      == 4    \* classifier calls in one run of LiveSpec
MaxSamples      == 60   \* numbered samples received in one run of RollingSpec
MaxRollingCalls == 2    \* classifier calls in one run of RollingSpec
MaxBatchSamples == 360  \* numbered samples received in one run of BatchSpec
TickMs     == 500    \* granularity of the clock
MaxDemos       == 1    \* GO presses in one run of DemoSpec
MaxDemoCalls   == 1    \* classifier calls in one run of DemoSpec
MaxHistoryCalls == 23  \* classifier calls in one run of HistorySpec
FailEvery       == 8   \* every FailEvery-th call of HistorySpec may fail
MaxWordCalls    == 8   \* classifier calls in one run of WordSpec
MaxOverlapCalls == 12   \* classifier calls in one run of OverlapSpec
MaxRearmCalls   == 2    \* classifier calls in one run of RearmSpec
MaxConnections  == 3    \* connections made in one run of BleSpec
MaxBleSamples   == 5    \* samples in the rolling window in BleSpec
MaxCaptureRuns  == 2    \* Capture presses in one run of CaptureSpec
MaxStraySamples == 3    \* samples outside a capture step in one run of CaptureSpec
MaxTaps         == 2    \* GO presses in one run of DoubleTapSpec
MaxTimedCalls   == 4   \* classifier calls in one run of TimedDemoSpec
StepMs          == 100 \* granularity of the clock in TimedDemoSpec

Letters     == {"A", "B"}      \* labels the classifier answers with
Confidences == {50, 90}        \* confidences it answers with, in percent

\* Words typed into the demo: supported letters, G (not offered) and U
\* (offered by the demo, without a simulator pattern).
DemoWords == { << "A" >>, << "A", "B" >>, << "G" >>, << "G", "U", "A" >> }

\* ------------------------------------------------------- program constants
WINDOW_SIZE    == 50     \* rolling window length
STABLE_NEEDED  == 4      \* consecutive equal predictions that commit a letter
MIN_CONFIDENCE == 60     \* minConfidence 0.6, in percent
HISTORY_KEEP   == 19     \* prev.slice(0, 19) before the new record
IDLE_MS        == 2000   \* quiet time that finalizes the word
IDLE_TIMER_MS  == 2500   \* delay of the idle check
RESTART_MS     == 500    \* delay of the auto-restart of collection
SAMPLE_MS       == 20     \* period of the 50 Hz sample stream
DEMO_SETTLE_MS  == 100    \* the driver's wait after it cleared the word
DEMO_PAUSE_MS   == 300    \* the driver's pause after a letter and before its last step
DEMO_TIMEOUT_MS == 10000  \* the driver's safety timeout per letter
BATCH_CONTINUOUS == 150  \* batch target in continuous mode
BATCH_SINGLE     == 200  \* batch target in single-letter mode

NoError      == "<null>"
NoPrediction == [letter |-> "", confidence |-> 0]
NoTimer      == [armed |-> FALSE, left |-> 0]
NoCallback   == 0
NoReply      == [kind |-> "none"]

DEFAULT_BASELINES == << 2700, 1650, 1850, 2110, 2125 >>
CAPTURE_SAMPLES   == 100
DEFAULT_MAXBENDS  == << 2200, 1300, 1480, 1640, 1720 >>

VARIABLES
    isContinuousMode,   \* useState(false)
    isSimulating,       \* useState(false)
    connectedDevice,    \* TRUE iff connectedDevice !== null
    sensorBuffer,       \* useState([]): the batch buffer
    isCollecting,       \* isCollectingRef.current
    rollingBuffer,      \* rollingBufferRef.current
    isPredicting,       \* isPredictingRef.current
    stablePred,         \* stablePredRef.current
    letterUsed,         \* letterUsedRef.current
    quickDemoCallback,  \* quickDemoCallbackRef.current: NoCallback or the armed callback's number
    detectedLetters,    \* useState<string[]>([])
    isWordFinalized,    \* useState(false)
    currentPrediction,  \* useState(null)
    predictionError,    \* useState(null)
    isAnalyzing,        \* useState(false)
    predictionHistory,  \* useState([])
    sinceSample,        \* Date.now() - lastSampleTimeRef.current, saturated at IDLE_MS
    idleTimer,          \* idleTimerRef.current: the pending idle check
    calls,              \* makePrediction invocations that have not returned
    spoken,             \* words handed to Speech.speak by the idle check
    nCalls,             \* makePrediction invocations so far
    nSamples,           \* numbered samples so far
    demos,              \* QuickDemo: simulateWord invocations that have not returned
    nDemos,             \* QuickDemo: GO presses so far
    nCallbacks,         \* completion callbacks created so far
    isRunning,          \* QuickDemo: useState(false)
    dispatched,         \* letters handed to onSimulateLetter, in order
    alerts,             \* alert() calls of QuickDemo, in order
    notified,           \* callbacks invoked by makePrediction, in order
    calibBaselines,     \* useState(DEFAULT_BASELINES)
    calibMaxbends,      \* useState(DEFAULT_MAXBENDS)
    rawSample,          \* the last sample whose normalization is observed (data)
    normalized,         \* what handleSensorData processed it to (processedData)
    restartTimer,       \* the pending 500 ms timer of the auto-restart effect
    apiReply,           \* what the server or the transport answered to the last request
    apiOutcome,         \* what apiService.predict returned or threw for it
    ble,                \* ConnectionManager: the connection, its subscriptions and its callbacks
    capture             \* CalibrationManager: step, capture buffer, captured baselines; isCalibrated

vars == << isContinuousMode, isSimulating, connectedDevice, sensorBuffer, isCollecting,
           rollingBuffer, isPredicting, stablePred, letterUsed, quickDemoCallback,
           detectedLetters, isWordFinalized, currentPrediction, predictionError,
           isAnalyzing, predictionHistory, sinceSample, idleTimer, calls, spoken,
           nCalls, nSamples, demos, nDemos, nCallbacks, isRunning, dispatched,
           alerts, notified, calibBaselines, calibMaxbends, rawSample, normalized,
           restartTimer, apiReply, apiOutcome, ble, capture >>

\* The last request seen by apiService.predict and its outcome.
gatewayVars == << apiReply, apiOutcome >>

\* The state of the ConnectionManager component.
bleVars == << ble >>

\* The state of the CalibrationManager component.
captureVars == << capture >>

\* The calibration and the last normalized sample.
calibVars == << calibBaselines, calibMaxbends, rawSample, normalized >>

\* The state of the QuickDemo component and of its runs.
driverVars == << demos, nDemos, nCallbacks, isRunning, dispatched, alerts, notified >>

Min(a, b) == IF a < b THEN a ELSE b
Max(a, b) == IF a > b THEN a ELSE b

\* ConnectionManager after mount: no device, no subscription, nothing pending.
\* link is the connection itself, device the component's connectedDevice state,
\* events the callbacks the BLE library has queued for its listeners,
\* cancelling a handleDisconnect that awaits cancelConnection; teardowns counts
\* the ends of an established connection and notified the calls of
\* onDeviceDisconnected.
NoConnection ==
    [ link |-> FALSE, device |-> FALSE, dataSub |-> FALSE, disconnectSub |-> FALSE,
      events |-> {}, cancelling |-> FALSE, established |-> 0, teardowns |-> 0,
      notified |-> 0 ]

\* CalibrationManager after mount, with isCalibrated of App.  straightSeen
\* and bentSeen record the samples handed to the registered handler during the
\* two steps of the current run, runs the Capture presses, calibrated the
\* calls of onCalibrate and args the arguments of the last one.
NoCapture ==
    [ step |-> "idle", buffer |-> << >>, capturedBaselines |-> << >>,
      isCalibrated |-> FALSE, args |-> << >>, straightSeen |-> << >>,
      bentSeen |-> << >>, runs |-> 0, calibrated |-> 0 ]

\* ------------------------------------------------------------ construction
Init ==
    /\ isContinuousMode = FALSE
    /\ isSimulating = FALSE
    /\ connectedDevice = FALSE
    /\ sensorBuffer = << >>
    /\ isCollecting = TRUE
    /\ rollingBuffer = << >>
    /\ isPredicting = FALSE
    /\ stablePred = [letter |-> "", count |-> 0]
    /\ letterUsed = FALSE
    /\ quickDemoCallback = NoCallback
    /\ detectedLetters = << >>
    /\ isWordFinalized = FALSE
    /\ currentPrediction = NoPrediction
    /\ predictionError = NoError
    /\ isAnalyzing = FALSE
    /\ predictionHistory = << >>
    /\ sinceSample = 0
    /\ idleTimer = NoTimer
    /\ calls = {}
    /\ spoken = << >>
    /\ nCalls = 0
    /\ nSamples = 0
    /\ demos = {}
    /\ nDemos = 0
    /\ nCallbacks = 0
    /\ isRunning = FALSE
    /\ dispatched = << >>
    /\ alerts = << >>
    /\ notified = << >>
    /\ calibBaselines = DEFAULT_BASELINES
    /\ calibMaxbends = DEFAULT_MAXBENDS
    /\ rawSample = << >>
    /\ normalized = << >>
    /\ restartTimer = NoTimer
    /\ apiReply = NoReply
    /\ apiOutcome = NoReply
    /\ ble = NoConnection
    /\ capture = NoCapture

\* ------------------------------------------------------------------ effects
\* The idle-detection effect.  It runs after a render in which one of its
\* dependencies changed; setDetectedLetters always installs a new array, so
\* every write of the letters re-runs it.  Its cleanup cancels the pending
\* check, and it arms a new one only for an active continuous session with a
\* non-empty word that is not finalized.
IdleEffect(lettersWritten) ==
    LET changed == \/ lettersWritten
                   \/ isContinuousMode' # isContinuousMode
                   \/ isSimulating' # isSimulating
                   \/ connectedDevice' # connectedDevice
                   \/ isWordFinalized' # isWordFinalized
        active  == isContinuousMode' /\ (isSimulating' \/ connectedDevice')
    IN  idleTimer' =
            IF changed
            THEN IF active /\ detectedLetters' # << >> /\ ~isWordFinalized'
                 THEN [armed |-> TRUE, left |-> IDLE_TIMER_MS]
                 ELSE NoTimer
            ELSE idleTimer

\* The auto-restart effect.  It re-runs when isContinuousMode, isAnalyzing or
\* isSimulating changed; its cleanup cancels the pending timer.  With a driver
\* callback armed it returns at once; otherwise it arms the timer for a
\* continuous simulation that is neither collecting nor analyzing.
RestartEffect ==
    LET changed == \/ isContinuousMode' # isContinuousMode
                   \/ isAnalyzing' # isAnalyzing
                   \/ isSimulating' # isSimulating
    IN  restartTimer' =
            IF changed
            THEN IF /\ quickDemoCallback' = NoCallback
                    /\ isContinuousMode' /\ ~isCollecting' /\ ~isAnalyzing' /\ isSimulating'
                 THEN [armed |-> TRUE, left |-> RESTART_MS]
                 ELSE NoTimer
            ELSE restartTimer

\* The effect on isSimulating: a simulation that starts re-arms collection.
SimulatingEffect(collecting) ==
    IF isSimulating' /\ ~isSimulating THEN TRUE ELSE collecting

\* ------------------------------------------------------------ makePrediction
\* The synchronous head of makePrediction, up to the await of the classifier.
\* The callback was created by the last render, so it carries that render's
\* isContinuousMode, isWordFinalized and connectedDevice.  qd is the local
\* isQuickDemoRunning; armed remembers which callback made it true.
NewCall(samples, viaRolling) ==
    [ id |-> nCalls + 1,
      qd |-> quickDemoCallback # NoCallback,
      armed |-> quickDemoCallback,
      cont |-> isContinuousMode,
      fin |-> isWordFinalized,
      dev |-> connectedDevice,
      rolling |-> viaRolling,
      samples |-> samples,
      phase |-> "api",
      err |-> FALSE ]

StartPrediction(samples, viaRolling) ==
    /\ calls' = calls \cup { NewCall(samples, viaRolling) }
    /\ nCalls' = nCalls + 1
    /\ isAnalyzing' = TRUE
    /\ predictionError' = NoError

\* ---------------------------------------------------------- handleSensorData
\* A window that drops the newest sample instead of the oldest.
RollingPush_DropsNewest(buf, data) ==
    LET pushed == Append(buf, data)
    IN  IF Len(pushed) > WINDOW_SIZE THEN SubSeq(pushed, 1, WINDOW_SIZE) ELSE pushed

RollingPush(buf, data) ==
    LET pushed == Append(buf, data)
    IN  IF Len(pushed) > WINDOW_SIZE THEN Tail(pushed) ELSE pushed

RollingFires(buf) == Len(buf) >= WINDOW_SIZE /\ ~isPredicting

\* The batch target of the current mode.
BatchTarget == IF isContinuousMode THEN BATCH_CONTINUOUS ELSE BATCH_SINGLE

\* setTimeout(() => makePredictionRef.current(newBuffer), 0): the batch waits
\* for its task; makePrediction has not started yet.
ScheduledCall(samples) ==
    [ id |-> nCalls + 1,
      qd |-> FALSE,
      armed |-> NoCallback,
      cont |-> FALSE,
      fin |-> FALSE,
      dev |-> FALSE,
      rolling |-> FALSE,
      samples |-> samples,
      phase |-> "scheduled",
      err |-> FALSE ]

\* A batch branch that forgets to empty the buffer when it emits.
BatchBranch_KeepsBuffer(data) ==
    /\ IF ~isCollecting
       THEN UNCHANGED << sensorBuffer, isCollecting, calls, nCalls >>
       ELSE LET newBuffer == Append(sensorBuffer, data)
            IN  IF Len(newBuffer) >= BatchTarget
                THEN /\ isCollecting' = FALSE
                     /\ sensorBuffer' = newBuffer
                     /\ calls' = calls \cup { ScheduledCall(newBuffer) }
                     /\ nCalls' = nCalls + 1
                ELSE /\ sensorBuffer' = newBuffer
                     /\ UNCHANGED << isCollecting, calls, nCalls >>
    /\ UNCHANGED << rollingBuffer, isPredicting, isAnalyzing, predictionError >>

\* The branch taken while a driver callback is armed.
BatchBranch(data) ==
    /\ IF ~isCollecting
       THEN UNCHANGED << sensorBuffer, isCollecting, calls, nCalls >>
       ELSE LET newBuffer == Append(sensorBuffer, data)
            IN  IF Len(newBuffer) >= BatchTarget
                THEN /\ isCollecting' = FALSE
                     /\ sensorBuffer' = << >>
                     /\ calls' = calls \cup { ScheduledCall(newBuffer) }
                     /\ nCalls' = nCalls + 1
                ELSE /\ sensorBuffer' = newBuffer
                     /\ UNCHANGED << isCollecting, calls, nCalls >>
    /\ UNCHANGED << rollingBuffer, isPredicting, isAnalyzing, predictionError >>

\* The branch taken otherwise: the rolling window.
RollingBranch(data) ==
    /\ rollingBuffer' = RollingPush(rollingBuffer, data)
    /\ IF RollingFires(rollingBuffer')
       THEN /\ isPredicting' = TRUE
            /\ StartPrediction(rollingBuffer', TRUE)
       ELSE UNCHANGED << isPredicting, calls, nCalls, isAnalyzing, predictionError >>
    /\ UNCHANGED << sensorBuffer, isCollecting >>

HandleSensorData(data) ==
    /\ isSimulating \/ connectedDevice
    /\ sinceSample' = 0
    /\ IF quickDemoCallback # NoCallback
       THEN BatchBranch(data)
       ELSE RollingBranch(data)
    /\ UNCHANGED << isContinuousMode, isSimulating, connectedDevice,
                    stablePred, letterUsed, quickDemoCallback,
                    detectedLetters, isWordFinalized, currentPrediction,
                    predictionHistory, idleTimer, spoken >>
    /\ UNCHANGED driverVars
    /\ UNCHANGED calibVars
    /\ UNCHANGED gatewayVars
    /\ UNCHANGED captureVars
    /\ UNCHANGED bleVars
    /\ RestartEffect

\* The task of a scheduled batch runs: makePrediction starts with the render's
\* closure and reads the callback slot.
BatchDispatch(c) ==
    /\ c \in calls
    /\ c.phase = "scheduled"
    /\ calls' = (calls \ {c}) \cup
                 { [ NewCall(c.samples, FALSE) EXCEPT !.id = c.id ] }
    /\ isAnalyzing' = TRUE
    /\ predictionError' = NoError
    /\ UNCHANGED << isContinuousMode, isSimulating, connectedDevice, sensorBuffer,
                    isCollecting, rollingBuffer, isPredicting, stablePred, letterUsed,
                    quickDemoCallback, detectedLetters, isWordFinalized,
                    currentPrediction, predictionHistory, sinceSample, idleTimer,
                    spoken, nCalls, nSamples >>
    /\ UNCHANGED driverVars
    /\ UNCHANGED calibVars
    /\ UNCHANGED gatewayVars
    /\ UNCHANGED captureVars
    /\ UNCHANGED bleVars
    /\ RestartEffect

\* A sample whose content is not told apart from the others.
Sample ==
    /\ HandleSensorData(0)
    /\ UNCHANGED nSamples

\* A sample that carries its arrival number.
NumberedSample ==
    /\ HandleSensorData(nSamples + 1)
    /\ nSamples' = nSamples + 1

\* ------------------------------------------- makePrediction, after the await
\* A history that keeps all of the previous 20 entries behind the new one.
PushHistory_KeepsTwenty(hist, rec) ==
    << rec >> \o SubSeq(hist, 1, Min(Len(hist), HISTORY_KEEP + 1))

\* prev => [record, ...prev.slice(0, 19)]
PushHistory(hist, rec) ==
    << rec >> \o SubSeq(hist, 1, Min(Len(hist), HISTORY_KEEP))

\* The rolling branch's tracker update.
StableAfter(sp, letter) ==
    IF letter = sp.letter
    THEN [letter |-> sp.letter, count |-> sp.count + 1]
    ELSE [letter |-> letter, count |-> 1]

\* The commit rule without the once-per-run latch.
Commits_NoLatch(c, letter, confidence) ==
    /\ c.cont
    /\ IF c.qd
       THEN confidence >= MIN_CONFIDENCE
       ELSE /\ letter = stablePred.letter
            /\ stablePred.count + 1 >= STABLE_NEEDED
            /\ confidence >= MIN_CONFIDENCE

\* Whether the response of call c appends its letter to the word.
Commits(c, letter, confidence) ==
    /\ c.cont
    /\ IF c.qd
       THEN confidence >= MIN_CONFIDENCE
       ELSE /\ letter = stablePred.letter
            /\ stablePred.count + 1 >= STABLE_NEEDED
            /\ ~letterUsed
            /\ confidence >= MIN_CONFIDENCE

\* The updater passed to setDetectedLetters: it reads the isWordFinalized of
\* the render that created the callback (c.fin), not the current state.
AppendedWord(c, letter) ==
    (IF c.fin THEN << >> ELSE detectedLetters) \o << letter >>

\* Whether the continuation awaits Haptics before it reaches the finally block.
AwaitsHaptics(c, committed) ==
    \/ c.cont /\ ~c.qd /\ committed
    \/ ~c.cont
    \/ c.qd

\* A rolling dispatch that clears the in-flight flag with .then(), which a
\* rejected call skips.
Returns_OnSuccessOnly(c, flag) == IF c.rolling /\ ~c.err THEN FALSE ELSE flag

\* finally { setIsAnalyzing(false) }, then the .finally() of the rolling
\* dispatch, which clears the in-flight flag.
Returns(c, flag) == IF c.rolling THEN FALSE ELSE flag

\* cb() on an empty slot throws a TypeError, which the catch block reports.
NotAFunction == "cb is not a function"

\* The completion callback of a waiting run: clearTimeout(timeoutId); resolve().
Resolved(d, cb) ==
    IF d.pc = "wait" /\ d.cb = cb
    THEN [d EXCEPT !.pc = "pause", !.timer = FALSE, !.clock = 0]
    ELSE d

\* The classifier answered call c with a prediction.
PredictionOk(c, letter, confidence) ==
    LET committed == Commits(c, letter, confidence)
        waits     == AwaitsHaptics(c, committed)
        cb        == quickDemoCallback
    IN  /\ c \in calls
        /\ c.phase = "api"
        /\ currentPrediction' = [letter |-> letter, confidence |-> confidence]
        /\ predictionHistory' =
               PushHistory(predictionHistory, [letter |-> letter, confidence |-> confidence])
        /\ IF c.cont /\ ~c.qd
           THEN /\ stablePred' = StableAfter(stablePred, letter)
                /\ letterUsed' = IF letter = stablePred.letter
                                 THEN (letterUsed \/ committed)
                                 ELSE FALSE
           ELSE UNCHANGED << stablePred, letterUsed >>
        /\ IF committed
           THEN /\ detectedLetters' = AppendedWord(c, letter)
                /\ isWordFinalized' = IF c.fin THEN FALSE ELSE isWordFinalized
           ELSE UNCHANGED << detectedLetters, isWordFinalized >>
        /\ IF waits
           THEN /\ calls' = (calls \ {c}) \cup
                            { [c EXCEPT !.phase = "haptic",
                                        !.err = (c.qd /\ cb = NoCallback)] }
                /\ UNCHANGED << isAnalyzing, isPredicting >>
           ELSE /\ calls' = calls \ {c}
                /\ isAnalyzing' = FALSE
                /\ isPredicting' = Returns(c, isPredicting)
        /\ IF c.qd
           THEN /\ quickDemoCallback' = NoCallback
                /\ IF cb = NoCallback
                   THEN /\ predictionError' = NotAFunction
                        /\ UNCHANGED << demos, notified >>
                   ELSE /\ notified' = Append(notified, cb)
                        /\ demos' = { Resolved(d, cb) : d \in demos }
                        /\ UNCHANGED predictionError
           ELSE UNCHANGED << quickDemoCallback, predictionError, demos, notified >>
        /\ UNCHANGED << isContinuousMode, isSimulating, connectedDevice, sensorBuffer,
                        isCollecting, rollingBuffer, sinceSample, spoken, nCalls,
                        nSamples, nDemos, nCallbacks, isRunning, dispatched, alerts >>
        /\ IdleEffect(committed)
        /\ UNCHANGED calibVars
        /\ UNCHANGED gatewayVars
        /\ UNCHANGED captureVars
        /\ UNCHANGED bleVars
        /\ RestartEffect

\* The classifier call of c failed: the catch block.
PredictionFailed(c) ==
    /\ c \in calls
    /\ c.phase = "api"
    /\ predictionError' = "Prediction failed"
    /\ calls' = (calls \ {c}) \cup { [c EXCEPT !.phase = "haptic", !.err = TRUE] }
    /\ UNCHANGED << isContinuousMode, isSimulating, connectedDevice, sensorBuffer,
                    isCollecting, rollingBuffer, isPredicting, stablePred, letterUsed,
                    quickDemoCallback, detectedLetters, isWordFinalized,
                    currentPrediction, isAnalyzing, predictionHistory, sinceSample,
                    idleTimer, spoken, nCalls, nSamples >>
    /\ UNCHANGED driverVars
    /\ UNCHANGED calibVars
    /\ UNCHANGED gatewayVars
    /\ UNCHANGED captureVars
    /\ UNCHANGED bleVars
    /\ RestartEffect

\* The awaited Haptics call of c resolved: the rest of makePrediction runs.
PredictionReturns(c) ==
    /\ c \in calls
    /\ c.phase = "haptic"
    /\ calls' = calls \ {c}
    /\ isAnalyzing' = FALSE
    /\ isPredicting' = Returns(c, isPredicting)
    /\ UNCHANGED << isContinuousMode, isSimulating, connectedDevice, sensorBuffer,
                    isCollecting, rollingBuffer, stablePred, letterUsed,
                    quickDemoCallback, detectedLetters, isWordFinalized,
                    currentPrediction, predictionError, predictionHistory, sinceSample,
                    idleTimer, spoken, nCalls, nSamples >>
    /\ UNCHANGED driverVars
    /\ UNCHANGED calibVars
    /\ UNCHANGED gatewayVars
    /\ UNCHANGED captureVars
    /\ UNCHANGED bleVars
    /\ RestartEffect

\* A Single Letter button that also clears the word.
SelectSingleLetter_ClearsWord ==
    /\ isContinuousMode' = FALSE
    /\ isSimulating' = FALSE
    /\ isCollecting' = FALSE
    /\ sensorBuffer' = << >>
    /\ detectedLetters' = << >>
    /\ isWordFinalized' = FALSE
    /\ UNCHANGED << calls, connectedDevice, rollingBuffer, isPredicting, stablePred, letterUsed,
                    quickDemoCallback, currentPrediction, predictionError, isAnalyzing,
                    predictionHistory, sinceSample, spoken, nCalls, nSamples >>
    /\ IdleEffect(TRUE)
    /\ UNCHANGED driverVars
    /\ UNCHANGED calibVars
    /\ UNCHANGED gatewayVars
    /\ UNCHANGED captureVars
    /\ UNCHANGED bleVars
    /\ RestartEffect

\* ------------------------------------------------------------- mode selector
SelectSingleLetter ==
    /\ isContinuousMode' = FALSE
    /\ isSimulating' = FALSE
    /\ isCollecting' = FALSE
    /\ sensorBuffer' = << >>
    /\ UNCHANGED << calls, connectedDevice, rollingBuffer, isPredicting, stablePred, letterUsed,
                    quickDemoCallback, detectedLetters, isWordFinalized,
                    currentPrediction, predictionError, isAnalyzing, predictionHistory,
                    sinceSample, spoken, nCalls, nSamples >>
    /\ IdleEffect(FALSE)
    /\ UNCHANGED driverVars
    /\ UNCHANGED calibVars
    /\ UNCHANGED gatewayVars
    /\ UNCHANGED captureVars
    /\ UNCHANGED bleVars
    /\ RestartEffect

SelectContinuousWords ==
    /\ isContinuousMode' = TRUE
    /\ sensorBuffer' = << >>
    /\ isCollecting' = TRUE
    /\ UNCHANGED << calls, isSimulating, connectedDevice, rollingBuffer, isPredicting,
                    stablePred, letterUsed, quickDemoCallback, detectedLetters,
                    isWordFinalized, currentPrediction, predictionError, isAnalyzing,
                    predictionHistory, sinceSample, spoken, nCalls, nSamples >>
    /\ IdleEffect(FALSE)
    /\ UNCHANGED driverVars
    /\ UNCHANGED calibVars
    /\ UNCHANGED gatewayVars
    /\ UNCHANGED captureVars
    /\ UNCHANGED bleVars
    /\ RestartEffect

\* --------------------------------------------------------- ConnectionManager
\* onDeviceConnected={setConnectedDevice}
OnDeviceConnected ==
    /\ connectedDevice' = TRUE
    /\ UNCHANGED << isContinuousMode, isSimulating, sensorBuffer, isCollecting,
                    rollingBuffer, isPredicting, stablePred, letterUsed,
                    quickDemoCallback, detectedLetters, isWordFinalized,
                    currentPrediction, predictionError, isAnalyzing, predictionHistory,
                    sinceSample, calls, spoken, nCalls, nSamples >>
    /\ IdleEffect(FALSE)
    /\ UNCHANGED driverVars
    /\ UNCHANGED calibVars
    /\ UNCHANGED gatewayVars
    /\ UNCHANGED captureVars
    /\ RestartEffect

DeviceConnected ==
    /\ ~connectedDevice
    /\ OnDeviceConnected
    /\ UNCHANGED bleVars

\* The onDeviceDisconnected handler of App.
OnDeviceDisconnected ==
    /\ connectedDevice' = FALSE
    /\ rollingBuffer' = << >>
    /\ isPredicting' = FALSE
    /\ stablePred' = [letter |-> "", count |-> 0]
    /\ letterUsed' = FALSE
    /\ UNCHANGED << calls, isContinuousMode, isSimulating, sensorBuffer, isCollecting,
                    quickDemoCallback, detectedLetters, isWordFinalized,
                    currentPrediction, predictionError, isAnalyzing, predictionHistory,
                    sinceSample, spoken, nCalls, nSamples >>
    /\ IdleEffect(FALSE)
    /\ UNCHANGED driverVars
    /\ UNCHANGED calibVars
    /\ UNCHANGED gatewayVars
    /\ UNCHANGED captureVars
    /\ RestartEffect

DeviceDisconnected ==
    /\ connectedDevice
    /\ OnDeviceDisconnected
    /\ UNCHANGED bleVars

\* cleanupConnection: both subscriptions are removed, so nothing queued for
\* them is delivered any more; the device is forgotten and the application
\* is notified.
CleanedUp(b) ==
    [ b EXCEPT !.dataSub = FALSE, !.disconnectSub = FALSE, !.events = {},
               !.device = FALSE,
               !.teardowns = IF b.device THEN b.teardowns + 1 ELSE b.teardowns,
               !.notified = b.notified + 1 ]

CleanupConnection(b) ==
    /\ ble' = CleanedUp(b)
    /\ OnDeviceDisconnected

\* handleConnect, its awaits done: both subscriptions are made, the device is
\* kept and the application is told.
HandleConnect ==
    /\ ~ble.device
    /\ ~ble.link
    /\ ble.established < MaxConnections
    /\ ble' = [ ble EXCEPT !.link = TRUE, !.device = TRUE, !.dataSub = TRUE,
                            !.disconnectSub = TRUE, !.events = {},
                            !.established = ble.established + 1 ]
    /\ OnDeviceConnected

\* The glove goes away (switched off, out of range): the library queues the
\* disconnection for the onDisconnected listener and the error for the
\* monitor, as far as they are subscribed.
DeviceLost ==
    /\ ble.link
    /\ ble' = [ ble EXCEPT !.link = FALSE,
                            !.events = (IF ble.disconnectSub THEN { "disconnected" } ELSE {})
                                       \cup (IF ble.dataSub THEN { "monitorError" } ELSE {}) ]
    /\ UNCHANGED << isContinuousMode, isSimulating, connectedDevice, sensorBuffer,
                    isCollecting, rollingBuffer, isPredicting, stablePred, letterUsed,
                    quickDemoCallback, detectedLetters, isWordFinalized,
                    currentPrediction, predictionError, isAnalyzing, predictionHistory,
                    sinceSample, idleTimer, calls, spoken, nCalls, nSamples,
                    restartTimer >>
    /\ UNCHANGED driverVars
    /\ UNCHANGED calibVars
    /\ UNCHANGED gatewayVars
    /\ UNCHANGED captureVars

\* The notification stream fails while the connection stands.
StreamError ==
    /\ ble.link
    /\ ble.dataSub
    /\ "monitorError" \notin ble.events
    /\ ble' = [ ble EXCEPT !.events = ble.events \cup { "monitorError" } ]
    /\ UNCHANGED << isContinuousMode, isSimulating, connectedDevice, sensorBuffer,
                    isCollecting, rollingBuffer, isPredicting, stablePred, letterUsed,
                    quickDemoCallback, detectedLetters, isWordFinalized,
                    currentPrediction, predictionError, isAnalyzing, predictionHistory,
                    sinceSample, idleTimer, calls, spoken, nCalls, nSamples,
                    restartTimer >>
    /\ UNCHANGED driverVars
    /\ UNCHANGED calibVars
    /\ UNCHANGED gatewayVars
    /\ UNCHANGED captureVars

\* The monitor's callback is called with an error.
MonitorError ==
    /\ "monitorError" \in ble.events
    /\ ble.dataSub
    /\ CleanupConnection(ble)

\* The onDisconnected listener is called.
OnDisconnected ==
    /\ "disconnected" \in ble.events
    /\ ble.disconnectSub
    /\ CleanupConnection(ble)

\* The Disconnect button, shown while a device is kept: handleDisconnect up
\* to its await.  cancelConnection ends the connection, and the library
\* reports that to the onDisconnected listener as it reports any other
\* disconnection.
HandleDisconnect ==
    /\ ble.device
    /\ ~ble.cancelling
    /\ ble' = [ ble EXCEPT !.cancelling = TRUE, !.link = FALSE,
                            !.events = IF ble.link /\ ble.disconnectSub
                                       THEN ble.events \cup { "disconnected" }
                                       ELSE ble.events ]
    /\ UNCHANGED << isContinuousMode, isSimulating, connectedDevice, sensorBuffer,
                    isCollecting, rollingBuffer, isPredicting, stablePred, letterUsed,
                    quickDemoCallback, detectedLetters, isWordFinalized,
                    currentPrediction, predictionError, isAnalyzing, predictionHistory,
                    sinceSample, idleTimer, calls, spoken, nCalls, nSamples,
                    restartTimer >>
    /\ UNCHANGED driverVars
    /\ UNCHANGED calibVars
    /\ UNCHANGED gatewayVars
    /\ UNCHANGED captureVars

\* handleDisconnect after its await, whether cancelConnection resolved or
\* threw: cleanupConnection.
HandleDisconnectCleanup ==
    /\ ble.cancelling
    /\ CleanupConnection([ ble EXCEPT !.cancelling = FALSE ])

\* The glove's stream as the monitor delivers it.
GloveSample ==
    /\ ble.link
    /\ ble.dataSub
    /\ Sample

\* ---------------------------------------------------------- SimulatorControl
SimulatorStart ==
    /\ ~isSimulating
    /\ isSimulating' = TRUE
    /\ isCollecting' = SimulatingEffect(isCollecting)
    /\ UNCHANGED << isContinuousMode, connectedDevice, sensorBuffer, rollingBuffer,
                    isPredicting, stablePred, letterUsed, quickDemoCallback,
                    detectedLetters, isWordFinalized, currentPrediction,
                    predictionError, isAnalyzing, predictionHistory, sinceSample,
                    calls, spoken, nCalls, nSamples >>
    /\ IdleEffect(FALSE)
    /\ UNCHANGED driverVars
    /\ UNCHANGED calibVars
    /\ UNCHANGED gatewayVars
    /\ UNCHANGED captureVars
    /\ UNCHANGED bleVars
    /\ RestartEffect

SimulatorStop ==
    /\ isSimulating
    /\ isSimulating' = FALSE
    /\ UNCHANGED << calls, isContinuousMode, connectedDevice, sensorBuffer, isCollecting,
                    rollingBuffer, isPredicting, stablePred, letterUsed,
                    quickDemoCallback, detectedLetters, isWordFinalized,
                    currentPrediction, predictionError, isAnalyzing, predictionHistory,
                    sinceSample, spoken, nCalls, nSamples >>
    /\ IdleEffect(FALSE)
    /\ UNCHANGED driverVars
    /\ UNCHANGED calibVars
    /\ UNCHANGED gatewayVars
    /\ UNCHANGED captureVars
    /\ UNCHANGED bleVars
    /\ RestartEffect

\* ------------------------------------------------------------ PredictionView
\* The word card with its Delete and Clear buttons is rendered only when no
\* error is shown, a result or no spinner is shown, and a word exists.
WordCardShown ==
    /\ predictionError = NoError
    /\ ~(isAnalyzing /\ currentPrediction = NoPrediction)
    /\ isContinuousMode
    /\ detectedLetters # << >>

ClearWord ==
    /\ WordCardShown
    /\ detectedLetters' = << >>
    /\ currentPrediction' = NoPrediction
    /\ isWordFinalized' = FALSE
    /\ UNCHANGED << isContinuousMode, isSimulating, connectedDevice, sensorBuffer,
                    isCollecting, rollingBuffer, isPredicting, stablePred, letterUsed,
                    quickDemoCallback, predictionError, isAnalyzing, predictionHistory,
                    sinceSample, calls, spoken, nCalls, nSamples >>
    /\ IdleEffect(TRUE)
    /\ UNCHANGED driverVars
    /\ UNCHANGED calibVars
    /\ UNCHANGED gatewayVars
    /\ UNCHANGED captureVars
    /\ UNCHANGED bleVars
    /\ RestartEffect

\* A Delete button that also takes back the finalization.
DeleteLetter_Unfinalizes ==
    /\ WordCardShown
    /\ detectedLetters' = SubSeq(detectedLetters, 1, Len(detectedLetters) - 1)
    /\ isWordFinalized' = FALSE
    /\ UNCHANGED << isContinuousMode, isSimulating, connectedDevice, sensorBuffer,
                    isCollecting, rollingBuffer, isPredicting, stablePred, letterUsed,
                    quickDemoCallback, currentPrediction,
                    predictionError, isAnalyzing, predictionHistory, sinceSample,
                    calls, spoken, nCalls, nSamples >>
    /\ IdleEffect(TRUE)
    /\ UNCHANGED driverVars
    /\ UNCHANGED calibVars
    /\ UNCHANGED gatewayVars
    /\ UNCHANGED captureVars
    /\ UNCHANGED bleVars
    /\ RestartEffect

DeleteLetter ==
    /\ WordCardShown
    /\ detectedLetters' = SubSeq(detectedLetters, 1, Len(detectedLetters) - 1)
    /\ UNCHANGED << isContinuousMode, isSimulating, connectedDevice, sensorBuffer,
                    isCollecting, rollingBuffer, isPredicting, stablePred, letterUsed,
                    quickDemoCallback, isWordFinalized, currentPrediction,
                    predictionError, isAnalyzing, predictionHistory, sinceSample,
                    calls, spoken, nCalls, nSamples >>
    /\ IdleEffect(TRUE)
    /\ UNCHANGED driverVars
    /\ UNCHANGED calibVars
    /\ UNCHANGED gatewayVars
    /\ UNCHANGED captureVars
    /\ UNCHANGED bleVars
    /\ RestartEffect

\* ------------------------------------------------------------------ QuickDemo
\* const availableLetters = 'ABCDEFIKOSTUVWXY'
AvailableLetters ==
    {"A", "B", "C", "D", "E", "F", "I", "K", "O", "S", "T", "U", "V", "W", "X", "Y"}

\* The keys of ASL_PATTERNS, the letters the simulator has a pattern for.
PatternLetters ==
    {"A", "B", "C", "D", "E", "F", "I", "K", "O", "S", "T", "V", "W", "X", "Y"}

IsAvailable(l) == l \in AvailableLetters
IsSkipped(l) == l \notin AvailableLetters

\* letters.filter(l => availableLetters.includes(l))
ValidLetters(word) == SelectSeq(word, IsAvailable)
SkippedLetters(word) == SelectSeq(word, IsSkipped)

\* simulateLetter, as the render that mounted QuickDemo created it: that render
\* had isContinuousMode true, so the callback does not set the mode.
SimulateLetter(letter) ==
    /\ isSimulating' = TRUE
    /\ sensorBuffer' = << >>
    /\ rollingBuffer' = << >>
    /\ stablePred' = [letter |-> "", count |-> 0]
    /\ letterUsed' = FALSE
    /\ isCollecting' = TRUE
    /\ dispatched' = Append(dispatched, letter)

\* The GO button: enabled for a non-empty word while neither the simulator nor
\* a demo is shown as running; simulateWord starts after the awaited haptic.
DemoPress(word) ==
    /\ isContinuousMode
    /\ ~isSimulating
    /\ ~isRunning
    /\ word # << >>
    /\ demos' = demos \cup { [ id |-> nDemos + 1, word |-> word, valid |-> << >>,
                                index |-> 0, pc |-> "pressed", cb |-> NoCallback,
                                timer |-> FALSE, clock |-> 0 ] }
    /\ nDemos' = nDemos + 1
    /\ UNCHANGED << isContinuousMode, isSimulating, connectedDevice, sensorBuffer,
                    isCollecting, rollingBuffer, isPredicting, stablePred, letterUsed,
                    quickDemoCallback, detectedLetters, isWordFinalized,
                    currentPrediction, predictionError, isAnalyzing, predictionHistory,
                    sinceSample, idleTimer, calls, spoken, nCalls, nSamples,
                    nCallbacks, isRunning, dispatched, alerts, notified >>
    /\ UNCHANGED calibVars
    /\ UNCHANGED gatewayVars
    /\ UNCHANGED captureVars
    /\ UNCHANGED bleVars
    /\ RestartEffect

\* simulateWord up to its first await: filter the letters, alert, and either
\* return or clear the word and its finalized flag.
SimulateWord(d) ==
    LET valid   == ValidLetters(d.word)
        skipped == SkippedLetters(d.word)
        said    == (IF skipped # << >> THEN << "skipped" >> ELSE << >>)
                   \o (IF valid = << >> THEN << "none" >> ELSE << >>)
    IN  /\ d \in demos
        /\ d.pc = "pressed"
        /\ alerts' = alerts \o said
        /\ IF valid = << >>
           THEN /\ demos' = demos \ {d}
                /\ UNCHANGED << detectedLetters, currentPrediction, isWordFinalized >>
           ELSE /\ demos' = (demos \ {d}) \cup
                             { [d EXCEPT !.valid = valid, !.pc = "settle"] }
                /\ detectedLetters' = << >>
                /\ currentPrediction' = NoPrediction
                /\ isWordFinalized' = FALSE
        /\ UNCHANGED << isContinuousMode, isSimulating, connectedDevice, sensorBuffer,
                        isCollecting, rollingBuffer, isPredicting, stablePred,
                        letterUsed, quickDemoCallback, predictionError, isAnalyzing,
                        predictionHistory, sinceSample, calls, spoken, nCalls,
                        nSamples, nDemos, nCallbacks, isRunning, dispatched, notified >>
        /\ IF valid = << >> THEN UNCHANGED idleTimer ELSE IdleEffect(TRUE)
        /\ UNCHANGED calibVars
        /\ UNCHANGED gatewayVars
        /\ UNCHANGED captureVars
        /\ UNCHANGED bleVars
        /\ RestartEffect

\* After the 100 ms wait: setIsRunning(true), then the awaited haptic.
DemoStart(d) ==
    /\ d \in demos
    /\ d.pc = "settle"
    /\ isRunning' = TRUE
    /\ demos' = (demos \ {d}) \cup
                 { [d EXCEPT !.pc = "pause", !.clock = DEMO_PAUSE_MS] }
    /\ UNCHANGED << isContinuousMode, isSimulating, connectedDevice, sensorBuffer,
                    isCollecting, rollingBuffer, isPredicting, stablePred, letterUsed,
                    quickDemoCallback, detectedLetters, isWordFinalized,
                    currentPrediction, predictionError, isAnalyzing, predictionHistory,
                    sinceSample, idleTimer, calls, spoken, nCalls, nSamples,
                    nDemos, nCallbacks, dispatched, alerts, notified >>
    /\ UNCHANGED calibVars
    /\ UNCHANGED gatewayVars
    /\ UNCHANGED captureVars
    /\ UNCHANGED bleVars
    /\ RestartEffect

\* One turn of the loop: dispatch the next letter, then arm the 10 s timeout
\* and the completion callback.
DemoLetter(d) ==
    /\ d \in demos
    /\ d.pc = "pause"
    /\ d.index < Len(d.valid)
    /\ SimulateLetter(d.valid[d.index + 1])
    /\ nCallbacks' = nCallbacks + 1
    /\ quickDemoCallback' = nCallbacks + 1
    /\ demos' = (demos \ {d}) \cup
                 { [d EXCEPT !.index = d.index + 1, !.pc = "wait",
                             !.cb = nCallbacks + 1, !.timer = TRUE, !.clock = 0] }
    /\ UNCHANGED << isContinuousMode, connectedDevice, isPredicting,
                    detectedLetters, isWordFinalized, currentPrediction,
                    predictionError, isAnalyzing, predictionHistory, sinceSample,
                    calls, spoken, nCalls, nSamples, nDemos, isRunning, alerts,
                    notified >>
    /\ IdleEffect(FALSE)
    /\ UNCHANGED calibVars
    /\ UNCHANGED gatewayVars
    /\ UNCHANGED captureVars
    /\ UNCHANGED bleVars
    /\ RestartEffect

\* The 10 s timeout of a letter fires: it gives up only if a callback is armed.
DemoTimeout(d) ==
    /\ d \in demos
    /\ d.timer
    /\ IF quickDemoCallback # NoCallback
       THEN /\ quickDemoCallback' = NoCallback
            /\ demos' = (demos \ {d}) \cup
                         { [d EXCEPT !.pc = "pause", !.timer = FALSE, !.clock = 0] }
       ELSE /\ demos' = (demos \ {d}) \cup { [d EXCEPT !.timer = FALSE] }
            /\ UNCHANGED quickDemoCallback
    /\ UNCHANGED << isContinuousMode, isSimulating, connectedDevice, sensorBuffer,
                    isCollecting, rollingBuffer, isPredicting, stablePred, letterUsed,
                    detectedLetters, isWordFinalized, currentPrediction,
                    predictionError, isAnalyzing, predictionHistory, sinceSample,
                    idleTimer, calls, spoken, nCalls, nSamples, nDemos, nCallbacks,
                    isRunning, dispatched, alerts, notified >>
    /\ UNCHANGED calibVars
    /\ UNCHANGED gatewayVars
    /\ UNCHANGED captureVars
    /\ UNCHANGED bleVars
    /\ RestartEffect

\* After the last letter: setIsRunning(false) and onStopSimulator.
DemoFinish(d) ==
    /\ d \in demos
    /\ d.pc = "pause"
    /\ d.index >= Len(d.valid)
    /\ isRunning' = FALSE
    /\ isSimulating' = FALSE
    /\ isCollecting' = FALSE
    /\ demos' = (demos \ {d}) \cup { [d EXCEPT !.pc = "final", !.clock = 0] }
    /\ UNCHANGED << isContinuousMode, connectedDevice, sensorBuffer, rollingBuffer,
                    isPredicting, stablePred, letterUsed, quickDemoCallback,
                    detectedLetters, isWordFinalized, currentPrediction,
                    predictionError, isAnalyzing, predictionHistory, sinceSample,
                    calls, spoken, nCalls, nSamples, nDemos, nCallbacks,
                    dispatched, alerts, notified >>
    /\ IdleEffect(FALSE)
    /\ UNCHANGED calibVars
    /\ UNCHANGED gatewayVars
    /\ UNCHANGED captureVars
    /\ UNCHANGED bleVars
    /\ RestartEffect

\* After the last 300 ms wait the run speaks the word and returns.
DemoEnd(d) ==
    /\ d \in demos
    /\ d.pc = "final"
    /\ demos' = demos \ {d}
    /\ UNCHANGED << isContinuousMode, isSimulating, connectedDevice, sensorBuffer,
                    isCollecting, rollingBuffer, isPredicting, stablePred, letterUsed,
                    quickDemoCallback, detectedLetters, isWordFinalized,
                    currentPrediction, predictionError, isAnalyzing, predictionHistory,
                    sinceSample, idleTimer, calls, spoken, nCalls, nSamples,
                    nDemos, nCallbacks, isRunning, dispatched, alerts, notified >>
    /\ UNCHANGED calibVars
    /\ UNCHANGED gatewayVars
    /\ UNCHANGED captureVars
    /\ UNCHANGED bleVars
    /\ RestartEffect

\* ------------------------------------------------------------------- timers
\* An idle check that does not look at the time since the last sample.
IdleFinalizes_NoQuiet ==
    /\ quickDemoCallback = NoCallback
    /\ ~isWordFinalized
    /\ detectedLetters # << >>

\* Whether the idle check finalizes: enough quiet time, no driver callback
\* armed, the word of the arming render not finalized and not empty.
IdleFinalizes ==
    /\ sinceSample >= IDLE_MS
    /\ quickDemoCallback = NoCallback
    /\ ~isWordFinalized
    /\ detectedLetters # << >>

IdleCheck ==
    /\ idleTimer.armed
    /\ idleTimer.left = 0
    /\ IF IdleFinalizes
       THEN /\ spoken' = Append(spoken, detectedLetters)
            /\ isWordFinalized' = TRUE
       ELSE UNCHANGED << spoken, isWordFinalized >>
    /\ idleTimer' = NoTimer
    /\ UNCHANGED << isContinuousMode, isSimulating, connectedDevice, sensorBuffer,
                    isCollecting, rollingBuffer, isPredicting, stablePred, letterUsed,
                    quickDemoCallback, detectedLetters, currentPrediction,
                    predictionError, isAnalyzing, predictionHistory, sinceSample,
                    calls, nCalls, nSamples >>
    /\ UNCHANGED driverVars
    /\ UNCHANGED calibVars
    /\ UNCHANGED gatewayVars
    /\ UNCHANGED captureVars
    /\ UNCHANGED bleVars
    /\ RestartEffect

\* The time a driver run has spent at its current step, saturated at the
\* letter timeout.
Aged(d, ms) == [d EXCEPT !.clock = Min(DEMO_TIMEOUT_MS, d.clock + ms)]

CountDown(timer, ms) ==
    IF timer.armed THEN [timer EXCEPT !.left = Max(0, timer.left - ms)] ELSE timer

\* ms of time pass.
Advance(ms) ==
    /\ sinceSample' = Min(IDLE_MS, sinceSample + ms)
    /\ idleTimer' = CountDown(idleTimer, ms)
    /\ restartTimer' = CountDown(restartTimer, ms)
    /\ demos' = { Aged(d, ms) : d \in demos }
    /\ UNCHANGED << isContinuousMode, isSimulating, connectedDevice, sensorBuffer,
                    isCollecting, rollingBuffer, isPredicting, stablePred, letterUsed,
                    quickDemoCallback, detectedLetters, isWordFinalized,
                    currentPrediction, predictionError, isAnalyzing, predictionHistory,
                    calls, spoken, nCalls, nSamples >>
    /\ UNCHANGED << nDemos, nCallbacks, isRunning, dispatched, alerts, notified >>
    /\ UNCHANGED calibVars
    /\ UNCHANGED gatewayVars
    /\ UNCHANGED captureVars
    /\ UNCHANGED bleVars

\* TickMs of time pass.
Tick == Advance(TickMs)

\* A timer callback that re-arms collection without looking at the driver's
\* callback slot.
RestartFires_NoSlotCheck ==
    /\ restartTimer.armed
    /\ restartTimer.left = 0
    /\ restartTimer' = NoTimer
    /\ isCollecting' = TRUE
    /\ sensorBuffer' = << >>
    /\ sinceSample' = 0
    /\ UNCHANGED << isContinuousMode, isSimulating, connectedDevice, rollingBuffer,
                    isPredicting, stablePred, letterUsed, quickDemoCallback,
                    detectedLetters, isWordFinalized, currentPrediction,
                    predictionError, isAnalyzing, predictionHistory, idleTimer,
                    calls, spoken, nCalls, nSamples >>
    /\ UNCHANGED driverVars
    /\ UNCHANGED calibVars
    /\ UNCHANGED gatewayVars
    /\ UNCHANGED captureVars
    /\ UNCHANGED bleVars

\* The 500 ms timer of the auto-restart effect fires: collection is re-armed
\* unless a driver callback is armed (isSimulating is the value of the render
\* that set the timer, and every change of it cancels the timer).
RestartFires ==
    /\ restartTimer.armed
    /\ restartTimer.left = 0
    /\ restartTimer' = NoTimer
    /\ IF quickDemoCallback = NoCallback
       THEN /\ isCollecting' = TRUE
            /\ sensorBuffer' = << >>
            /\ sinceSample' = 0
       ELSE UNCHANGED << isCollecting, sensorBuffer, sinceSample >>
    /\ UNCHANGED << isContinuousMode, isSimulating, connectedDevice, rollingBuffer,
                    isPredicting, stablePred, letterUsed, quickDemoCallback,
                    detectedLetters, isWordFinalized, currentPrediction,
                    predictionError, isAnalyzing, predictionHistory, idleTimer,
                    calls, spoken, nCalls, nSamples >>
    /\ UNCHANGED driverVars
    /\ UNCHANGED calibVars
    /\ UNCHANGED gatewayVars
    /\ UNCHANGED captureVars
    /\ UNCHANGED bleVars

\* ------------------------------------------------------------ specification
Confident == { p \in Confidences : p >= MIN_CONFIDENCE }

\* Sessions with resets: the glove and the simulator come and go and the mode
\* is toggled while up to MaxCalls classifications are dispatched and answered
\* or fail.  No letter is committed within so few classifications; the word's
\* own operations and the idle check belong to SessionSpec.
Next ==
    \/ Sample /\ nCalls' <= MaxCalls
    \/ \E c \in calls, l \in Letters, p \in Confidences : PredictionOk(c, l, p)
    \/ \E c \in calls : PredictionFailed(c)
    \/ \E c \in calls : PredictionReturns(c)
    \/ SelectSingleLetter
    \/ SelectContinuousWords
    \/ DeviceConnected
    \/ DeviceDisconnected
    \/ SimulatorStart
    \/ SimulatorStop

Spec == Init /\ [][Next]_vars

\* One session with the glove: the device stays connected, the classifier
\* answers confidently or fails, the user switches modes and edits the word.
SessionNext ==
    \/ Sample /\ nCalls' <= MaxSessionCalls
    \/ \E c \in calls, l \in Letters, p \in Confident : PredictionOk(c, l, p)
    \/ \E c \in calls : PredictionFailed(c)
    \/ \E c \in calls : PredictionReturns(c)
    \/ SelectSingleLetter
    \/ SelectContinuousWords
    \/ DeviceConnected
    \/ ClearWord
    \/ DeleteLetter
    \/ IdleCheck
    \/ Tick

SessionSpec == Init /\ [][SessionNext]_vars

\* The consensus policy alone: continuous mode, a confident classifier, and
\* answers that arrive before any time has passed.
ConsensusNext ==
    \/ isContinuousMode /\ Sample /\ nCalls' <= MaxConsensusCalls
    \/ \E c \in calls, l \in Letters, p \in Confident : PredictionOk(c, l, p)
    \/ \E c \in calls : PredictionReturns(c)
    \/ SelectContinuousWords
    \/ DeviceConnected

ConsensusSpec == Init /\ [][ConsensusNext]_vars

\* A session in which time passes, due timers fire and calls are answered.
LiveNext ==
    \/ isContinuousMode /\ Sample /\ nCalls' <= MaxLiveCalls
    \/ \E c \in calls, l \in Letters, p \in Confident : PredictionOk(c, l, p)
    \/ \E c \in calls : PredictionReturns(c)
    \/ SelectContinuousWords
    \/ DeviceConnected
    \/ IdleCheck
    \/ Tick

LiveSpec ==
    /\ Init
    /\ [][LiveNext]_vars
    /\ WF_vars(Tick)
    /\ WF_vars(IdleCheck)
    /\ WF_vars(\E c \in calls, l \in Letters, p \in Confident : PredictionOk(c, l, p))
    /\ WF_vars(\E c \in calls : PredictionReturns(c))

\* A session with the classifier behind it: a call is answered, rejected or
\* left without an answer.
PendingNext ==
    \/ Sample /\ nCalls' <= MaxLiveCalls
    \/ \E c \in calls, l \in Letters, p \in Confident : PredictionOk(c, l, p)
    \/ \E c \in calls : PredictionFailed(c)
    \/ \E c \in calls : PredictionReturns(c)
    \/ SelectContinuousWords
    \/ DeviceConnected
    \/ IdleCheck
    \/ Tick

\* The gateway built on fetch: no timeout and no AbortController, so nothing
\* on the client ends a request the server leaves unanswered.  Time passes,
\* due timers fire and the awaited haptics resolve.
FetchGatewaySpec ==
    /\ Init
    /\ [][PendingNext]_vars
    /\ WF_vars(Tick)
    /\ WF_vars(IdleCheck)
    /\ WF_vars(\E c \in calls : PredictionReturns(c))

\* The gateway built on axios with timeout: 5000: the client rejects a request
\* that is still unanswered when its timer fires.
AxiosGatewaySpec ==
    /\ FetchGatewaySpec
    /\ WF_vars(\E c \in calls : PredictionFailed(c))

\* The classifier's answers in OverlapSpec: the calls that follow the one that
\* is left pending are answered B, the others A.
OverlapLetter(c) ==
    IF c.id > STABLE_NEEDED + 1 /\ c.id <= 2 * STABLE_NEEDED + 1 THEN "B" ELSE "A"

\* A glove session in Continuous mode with a slow answer among fast ones: a
\* word is finalized when the glove pauses, the glove drops out and comes back
\* while a call is pending, and the stream goes on.
OverlapNext ==
    \/ SelectContinuousWords
    \/ DeviceConnected
    \/ isWordFinalized /\ calls # {} /\ DeviceDisconnected
    \/ isContinuousMode /\ Sample /\ nCalls' <= MaxOverlapCalls
    \/ \E c \in calls : PredictionOk(c, OverlapLetter(c), 90)
    \/ \E c \in calls : PredictionReturns(c)
    \/ IdleCheck
    \/ calls = {} /\ detectedLetters # << >> /\ ~isWordFinalized /\ Tick

OverlapSpec == Init /\ [][OverlapNext]_vars

\* A demo run in Continuous mode: the driver dispatches the letters of one
\* word, the simulator streams samples while a capture is armed, batches are
\* classified, the 10 s timeout may fire before or after a classification
\* completes.
DemoNext ==
    \/ SelectContinuousWords
    \/ \E w \in DemoWords : DemoPress(w) /\ nDemos' <= MaxDemos
    \/ \E d \in demos : SimulateWord(d)
    \/ \E d \in demos : DemoStart(d)
    \/ \E d \in demos : DemoLetter(d)
    \/ \E d \in demos : DemoTimeout(d)
    \/ \E d \in demos : DemoFinish(d)
    \/ \E d \in demos : DemoEnd(d)
    \/ quickDemoCallback # NoCallback /\ Sample /\ nCalls' <= MaxDemoCalls
    \/ \E c \in calls : BatchDispatch(c)
    \/ \E c \in calls, l \in Letters, p \in Confidences : PredictionOk(c, l, p)
    \/ \E c \in calls : PredictionFailed(c)
    \/ \E c \in calls : PredictionReturns(c)

DemoSpec == Init /\ [][DemoNext]_vars

\* A demo run of the word A during which the user taps the Continuous Words
\* button again while the letter's classification is pending.
RearmNext ==
    \/ (~isContinuousMode \/ (\E c \in calls : c.phase = "api")) /\ SelectContinuousWords
    \/ DemoPress(<< "A" >>) /\ nDemos' <= MaxDemos
    \/ \E d \in demos : SimulateWord(d)
    \/ \E d \in demos : DemoStart(d)
    \/ \E d \in demos : DemoLetter(d)
    \/ \E d \in demos : DemoTimeout(d)
    \/ \E d \in demos : DemoFinish(d)
    \/ \E d \in demos : DemoEnd(d)
    \/ quickDemoCallback # NoCallback /\ Sample /\ nCalls' <= MaxRearmCalls
    \/ \E c \in calls : BatchDispatch(c)
    \/ \E c \in calls : PredictionOk(c, "A", 90)
    \/ \E c \in calls : PredictionReturns(c)

RearmSpec == Init /\ [][RearmNext]_vars

\* The GO button tapped more than once: each tap whose guard passes starts a
\* run of the word A.
DoubleTapNext ==
    \/ ~isContinuousMode /\ SelectContinuousWords
    \/ DemoPress(<< "A" >>) /\ nDemos' <= MaxTaps
    \/ \E d \in demos : SimulateWord(d)
    \/ \E d \in demos : DemoStart(d)
    \/ \E d \in demos : DemoLetter(d)
    \/ \E d \in demos : DemoTimeout(d)
    \/ \E d \in demos : DemoFinish(d)
    \/ \E d \in demos : DemoEnd(d)
    \/ quickDemoCallback # NoCallback /\ Sample /\ nCalls' <= MaxDemoCalls
    \/ \E c \in calls : BatchDispatch(c)
    \/ \E c \in calls : PredictionOk(c, "A", 90)
    \/ \E c \in calls : PredictionReturns(c)

DoubleTapSpec == Init /\ [][DoubleTapNext]_vars

\* DoubleTapSpec with the scheduling of the driver: every started step of
\* simulateWord goes on, its timers fire, scheduled tasks run and awaited
\* haptics resolve.  Samples and the classifier's answers may stay away.
DoubleTapLiveSpec ==
    /\ DoubleTapSpec
    /\ WF_vars(\E d \in demos : SimulateWord(d))
    /\ WF_vars(\E d \in demos : DemoStart(d))
    /\ WF_vars(\E d \in demos : DemoLetter(d))
    /\ \A i \in 1..MaxTaps : WF_vars(\E d \in demos : d.id = i /\ DemoTimeout(d))
    /\ WF_vars(\E d \in demos : DemoFinish(d))
    /\ WF_vars(\E d \in demos : DemoEnd(d))
    /\ WF_vars(\E c \in calls : BatchDispatch(c))
    /\ WF_vars(\E c \in calls : PredictionReturns(c))

\* The glove is connected and streams; the connection ends by the user's
\* Disconnect, by the glove going away or by an error of the stream.
BleNext ==
    \/ HandleConnect
    \/ GloveSample /\ Len(rollingBuffer') <= MaxBleSamples
    \/ DeviceLost
    \/ StreamError
    \/ MonitorError
    \/ OnDisconnected
    \/ HandleDisconnect
    \/ HandleDisconnectCleanup

BleSpec == Init /\ [][BleNext]_vars

\* The answers of the classifier in HistorySpec: the letter and the confidence
\* follow the call's number, so that consecutive records differ.
HistoryLetter(c) == IF c.id % 2 = 0 THEN "A" ELSE "B"
HistoryConfidence(c) == IF (c.id \div 2) % 2 = 0 THEN 50 ELSE 90

\* The calls whose request may fail in HistorySpec.
MayFail(c) == c.id % FailEvery = 0

\* A glove streaming in Single Letter mode: one rolling prediction after the
\* other, some of which fail.
HistoryNext ==
    \/ DeviceConnected
    \/ Sample /\ nCalls' <= MaxHistoryCalls
    \/ \E c \in calls : PredictionOk(c, HistoryLetter(c), HistoryConfidence(c))
    \/ \E c \in calls : MayFail(c) /\ PredictionFailed(c)
    \/ \E c \in calls : PredictionReturns(c)

HistorySpec == Init /\ [][HistoryNext]_vars

\* The answers of the classifier in WordSpec: four times A, then B.
WordLetter(c) == IF c.id <= STABLE_NEEDED THEN "A" ELSE "B"

\* A word is built with the glove in Continuous mode, finalized by the idle
\* check and edited with the buttons of the word card.
WordNext ==
    \/ SelectContinuousWords
    \/ DeviceConnected
    \/ isContinuousMode /\ Sample /\ nCalls' <= MaxWordCalls
    \/ \E c \in calls : PredictionOk(c, WordLetter(c), 90)
    \/ \E c \in calls : PredictionReturns(c)
    \/ ClearWord
    \/ DeleteLetter
    \/ IdleCheck
    \/ Tick

WordSpec == Init /\ [][WordNext]_vars

\* A step of a driver run whose awaited timeout has elapsed.
DemoDue(d) ==
    \/ d.pc = "pressed"
    \/ d.pc = "settle" /\ d.clock >= DEMO_SETTLE_MS
    \/ d.pc \in {"pause", "final"} /\ d.clock >= DEMO_PAUSE_MS
    \/ d.timer /\ d.clock >= DEMO_TIMEOUT_MS

\* The samples of one step of the clock: the source sends one every SAMPLE_MS.
Burst == StepMs \div SAMPLE_MS

\* In TimedDemoSpec the source sends the Burst samples of every step until
\* it falls silent for good: a burst starts only in the step after the last
\* one and is completed before time passes.
BurstOpen == Len(sensorBuffer) % Burst # 0 \/ Len(rollingBuffer) % Burst # 0
MayStream == BurstOpen \/ sinceSample = StepMs

\* Nothing is due: no timer has run out and no call waits for its task, the
\* classifier or the haptics.
Quiescent ==
    /\ ~BurstOpen
    /\ idleTimer.armed => idleTimer.left > 0
    /\ restartTimer.armed => restartTimer.left > 0
    /\ \A d \in demos : ~DemoDue(d)
    /\ calls = {}

\* A demo run in real time: the driver's waits, its 10 s timeout, the idle
\* check and the auto-restart timer take their time, in steps of StepMs.  A
\* glove that connected before the run streams until it falls silent, and it
\* disconnects at any time after that; the classifier answers at once or fails.  After
\* the run the glove's stream goes on into the rolling window.
TimedDemoNext ==
    \/ ~isContinuousMode /\ SelectContinuousWords
    \/ DemoPress(<< "A", "B" >>) /\ nDemos' <= MaxDemos
    \/ \E d \in demos : SimulateWord(d)
    \/ \E d \in demos : DemoDue(d) /\ DemoStart(d)
    \/ \E d \in demos : DemoDue(d) /\ DemoLetter(d)
    \/ \E d \in demos : DemoDue(d) /\ DemoTimeout(d)
    \/ \E d \in demos : DemoDue(d) /\ DemoFinish(d)
    \/ \E d \in demos : DemoDue(d) /\ DemoEnd(d)
    \/ MayStream /\ Sample /\ nCalls' <= MaxTimedCalls
    \/ \E c \in calls : BatchDispatch(c)
    \/ \E c \in calls : PredictionOk(c, "A", 90)
    \/ \E c \in calls : PredictionFailed(c)
    \/ \E c \in calls : PredictionReturns(c)
    \/ nDemos = 0 /\ DeviceConnected
    \/ sinceSample > StepMs /\ DeviceDisconnected
    \/ IdleCheck
    \/ RestartFires
    \/ (demos # {} \/ (nDemos > 0 /\ connectedDevice)) /\ Quiescent /\ Advance(StepMs)

TimedDemoSpec == Init /\ [][TimedDemoNext]_vars

\* Fill levels of the batch buffer at which BatchSpec lets the user toggle
\* the mode or a letter time out.
InterruptAt == {0, 100}

\* Batch captures of one two-letter demo with numbered samples; the user may
\* toggle the mode while the demo runs, and a letter may time out.  The
\* emitted observations stay scheduled: their classification is not part of
\* this scenario.
BatchNext ==
    \/ SelectContinuousWords /\ Len(sensorBuffer) \in InterruptAt
    \/ SelectSingleLetter /\ Len(sensorBuffer) \in InterruptAt
    \/ DemoPress(<< "A", "B" >>) /\ nDemos' <= MaxDemos
    \/ \E d \in demos : SimulateWord(d)
    \/ \E d \in demos : DemoStart(d)
    \/ \E d \in demos : DemoLetter(d)
    \/ \E d \in demos : DemoTimeout(d) /\ Len(sensorBuffer) \in InterruptAt
    \/ quickDemoCallback # NoCallback /\ NumberedSample /\ nSamples' <= MaxBatchSamples

BatchSpec == Init /\ [][BatchNext]_vars

\* The glove streams numbered samples into the rolling window; it may
\* disconnect and connect again.
RollingNext ==
    \/ DeviceConnected
    \/ DeviceDisconnected
    \/ NumberedSample /\ nSamples' <= MaxSamples /\ nCalls' <= MaxRollingCalls
    \/ \E c \in calls : PredictionOk(c, "A", 90)
    \/ \E c \in calls : PredictionReturns(c)

RollingSpec == Init /\ [][RollingNext]_vars

\* ----------------------------------------------------------- normalization
\* Channel values are exact fractions num/den.
Zero == [num |-> 0, den |-> 1]
One  == [num |-> 1, den |-> 1]
Whole(v) == [num |-> v, den |-> 1]

Abs(x) == IF x < 0 THEN 0 - x ELSE x

\* A channel normalized against the bent end instead of the baseline.
NormalizeChannel_Inverted(value, base, bent) ==
    LET range == base - bent
        num   == IF range < 0 THEN bent - value ELSE value - bent
    IN  IF Abs(range) < 1 THEN Zero
        ELSE IF num <= 0 THEN Zero
        ELSE IF num >= Abs(range) THEN One
        ELSE [num |-> num, den |-> Abs(range)]

\* A channel whose quotient is returned as it is, without Math.max / Math.min.
NormalizeChannel_Unclamped(value, base, bent) ==
    LET range == base - bent
        num   == IF range < 0 THEN value - base ELSE base - value
    IN  IF Abs(range) < 1 THEN Zero
        ELSE [num |-> num, den |-> Abs(range)]

\* One channel of normalizeSample: clamp((base - value) / (base - bent), 0, 1),
\* and 0 for a degenerate range.  The quotient is kept with a positive
\* denominator.
NormalizeChannel(value, base, bent) ==
    LET range == base - bent
        num   == IF range < 0 THEN value - base ELSE base - value
    IN  IF Abs(range) < 1 THEN Zero
        ELSE IF num <= 0 THEN Zero
        ELSE IF num >= Abs(range) THEN One
        ELSE [num |-> num, den |-> Abs(range)]

NormalizeSample(raw, baselines, maxbends) ==
    [ i \in 1..Len(raw) |-> NormalizeChannel(raw[i], baselines[i], maxbends[i]) ]

\* sample.some(v => v > 2)
IsRawThermistorData(sample) == \E i \in 1..Len(sample) : sample[i] > 2

\* The samples NormalizeSpec feeds: per channel the default baseline, the
\* default bent end and the value halfway, and three whole vectors: one above
\* every baseline, one below every bent end and one that is already
\* normalized.
Halfway(i) == (DEFAULT_BASELINES[i] + DEFAULT_MAXBENDS[i]) \div 2
ChannelValues(i) == {DEFAULT_BASELINES[i], DEFAULT_MAXBENDS[i], Halfway(i)}
RawSamples ==
    { << a, b, c, d, e >> : a \in ChannelValues(1), b \in ChannelValues(2),
                            c \in ChannelValues(3), d \in ChannelValues(4),
                            e \in ChannelValues(5) }
    \cup { [i \in 1..5 |-> DEFAULT_BASELINES[i] + 100],
           [i \in 1..5 |-> DEFAULT_MAXBENDS[i] - 100], [i \in 1..5 |-> 1] }

\* The calibrations a user may capture in NormalizeSpec: the defaults, a glove
\* that rests lower, a capture whose two ends coincide, and one whose ends are
\* swapped.
Calibrations ==
    { [baselines |-> DEFAULT_BASELINES, maxbends |-> DEFAULT_MAXBENDS],
      [baselines |-> [i \in 1..5 |-> DEFAULT_BASELINES[i] - 100],
       maxbends  |-> DEFAULT_MAXBENDS],
      [baselines |-> DEFAULT_MAXBENDS, maxbends |-> DEFAULT_MAXBENDS],
      [baselines |-> DEFAULT_MAXBENDS, maxbends |-> DEFAULT_BASELINES] }

\* The head of handleSensorData: a sample of a connected glove, or one that
\* looks raw, is normalized with the current calibration; any other sample is
\* processed as it is.
NormalizeStep(data) ==
    /\ rawSample' = data
    /\ normalized' =
           IF connectedDevice \/ IsRawThermistorData(data)
           THEN NormalizeSample(data, calibBaselines, calibMaxbends)
           ELSE [ i \in 1..Len(data) |-> Whole(data[i]) ]
    /\ UNCHANGED << calibBaselines, calibMaxbends >>
    /\ UNCHANGED << isContinuousMode, isSimulating, connectedDevice, sensorBuffer,
                    isCollecting, rollingBuffer, isPredicting, stablePred, letterUsed,
                    quickDemoCallback, detectedLetters, isWordFinalized,
                    currentPrediction, predictionError, isAnalyzing, predictionHistory,
                    sinceSample, idleTimer, calls, spoken, nCalls, nSamples >>
    /\ UNCHANGED driverVars
    /\ UNCHANGED gatewayVars
    /\ UNCHANGED captureVars
    /\ UNCHANGED bleVars
    /\ RestartEffect

\* onCalibrate: the calibration screen hands over a new pair of vectors.
Calibrate(cal) ==
    /\ calibBaselines' = cal.baselines
    /\ calibMaxbends' = cal.maxbends
    /\ UNCHANGED << rawSample, normalized >>
    /\ UNCHANGED << isContinuousMode, isSimulating, connectedDevice, sensorBuffer,
                    isCollecting, rollingBuffer, isPredicting, stablePred, letterUsed,
                    quickDemoCallback, detectedLetters, isWordFinalized,
                    currentPrediction, predictionError, isAnalyzing, predictionHistory,
                    sinceSample, idleTimer, calls, spoken, nCalls, nSamples >>
    /\ UNCHANGED driverVars
    /\ UNCHANGED gatewayVars
    /\ UNCHANGED captureVars
    /\ UNCHANGED bleVars
    /\ RestartEffect

\* Samples are normalized while the glove connects and disconnects and the
\* user recalibrates.
NormalizeNext ==
    \/ DeviceConnected
    \/ DeviceDisconnected
    \/ \E cal \in Calibrations : Calibrate(cal)
    \/ \E v \in RawSamples : NormalizeStep(v)

NormalizeSpec == Init /\ [][NormalizeNext]_vars

\* ------------------------------------------------------ CalibrationManager
\* The sum of channel i over the samples, added up by halves: the whole
\* numbers of the readings add to the same sum in any order.
RECURSIVE SumChannel(_, _)
SumChannel(samples, i) ==
    LET n == Len(samples)
        h == n \div 2
    IN  IF n = 0 THEN 0
        ELSE IF n = 1 THEN samples[1][i]
        ELSE SumChannel(SubSeq(samples, 1, h), i)
             + SumChannel(SubSeq(samples, h + 1, n), i)

\* Math.round of a non-negative quotient.
RoundDiv(sum, n) == (2 * sum + n) \div (2 * n)

\* Per channel Math.round(sum / CAPTURE_SAMPLES).
Averages(samples) ==
    [ i \in 1..5 |-> RoundDiv(SumChannel(samples, i), CAPTURE_SAMPLES) ]

\* A handler that keeps the straight step's samples in the buffer when the
\* bent step begins.
CaptureHandler_KeepsBuffer(c, sample) ==
    IF Len(sample) # 5 THEN c
    ELSE LET buf == Append(c.buffer, sample)
         IN  IF Len(buf) < CAPTURE_SAMPLES THEN [ c EXCEPT !.buffer = buf ]
             ELSE IF c.step = "straight"
             THEN [ c EXCEPT !.capturedBaselines = Averages(buf), !.step = "bent",
                             !.buffer = buf ]
             ELSE [ c EXCEPT !.buffer = << >>, !.capturedBaselines = << >>,
                             !.step = "done", !.isCalibrated = TRUE,
                             !.args = << c.capturedBaselines, Averages(buf) >>,
                             !.calibrated = c.calibrated + 1 ]

\* The handler registered during a capture step, with the render that
\* follows its setStep.
CaptureHandler(c, sample) ==
    IF Len(sample) # 5 THEN c
    ELSE LET buf == Append(c.buffer, sample)
         IN  IF Len(buf) < CAPTURE_SAMPLES THEN [ c EXCEPT !.buffer = buf ]
             ELSE IF c.step = "straight"
             THEN [ c EXCEPT !.buffer = << >>, !.capturedBaselines = Averages(buf),
                             !.step = "bent" ]
             ELSE [ c EXCEPT !.buffer = << >>, !.capturedBaselines = << >>,
                             !.step = "done", !.isCalibrated = TRUE,
                             !.args = << c.capturedBaselines, Averages(buf) >>,
                             !.calibrated = c.calibrated + 1 ]

\* The Capture button of step 1, shown while the glove is connected, nothing
\* is calibrated and no step is under way: startCapture('straight').
StartCapture ==
    /\ connectedDevice
    /\ ~capture.isCalibrated
    /\ capture.step = "idle"
    /\ capture.runs < MaxCaptureRuns
    /\ capture' = [ capture EXCEPT !.buffer = << >>, !.step = "straight",
                                    !.straightSeen = << >>, !.bentSeen = << >>,
                                    !.runs = capture.runs + 1 ]
    /\ UNCHANGED << isContinuousMode, isSimulating, connectedDevice, sensorBuffer,
                    isCollecting, rollingBuffer, isPredicting, stablePred, letterUsed,
                    quickDemoCallback, detectedLetters, isWordFinalized,
                    currentPrediction, predictionError, isAnalyzing, predictionHistory,
                    sinceSample, idleTimer, calls, spoken, nCalls, nSamples,
                    restartTimer >>
    /\ UNCHANGED driverVars
    /\ UNCHANGED calibVars
    /\ UNCHANGED gatewayVars
    /\ UNCHANGED bleVars

\* The Recalibrate button, shown once calibrated: handleReset and onReset.
HandleReset ==
    /\ connectedDevice
    /\ capture.isCalibrated
    /\ capture' = [ capture EXCEPT !.buffer = << >>, !.capturedBaselines = << >>,
                                    !.step = "idle", !.isCalibrated = FALSE ]
    /\ calibBaselines' = DEFAULT_BASELINES
    /\ calibMaxbends' = DEFAULT_MAXBENDS
    /\ UNCHANGED << rawSample, normalized >>
    /\ UNCHANGED << isContinuousMode, isSimulating, connectedDevice, sensorBuffer,
                    isCollecting, rollingBuffer, isPredicting, stablePred, letterUsed,
                    quickDemoCallback, detectedLetters, isWordFinalized,
                    currentPrediction, predictionError, isAnalyzing, predictionHistory,
                    sinceSample, idleTimer, calls, spoken, nCalls, nSamples,
                    restartTimer >>
    /\ UNCHANGED driverVars
    /\ UNCHANGED gatewayVars
    /\ UNCHANGED bleVars

\* The k-th reading of the glove.
GloveReading(k) == [ i \in 1..5 |-> DEFAULT_MAXBENDS[i] + k ]

\* The head of handleSensorData for a reading of the glove: the sample is
\* normalized with the current calibration and handed, raw, to the handler
\* CalibrationManager has registered, if any; a completed bent step calls
\* onCalibrate.
CaptureSample(data) ==
    LET isRawGlove == connectedDevice \/ IsRawThermistorData(data)
        registered == capture.step \in { "straight", "bent" }
        fed        == isRawGlove /\ registered
        after      == IF fed THEN CaptureHandler(capture, data) ELSE capture
    IN  /\ rawSample' = data
        /\ normalized' =
               IF isRawGlove
               THEN NormalizeSample(data, calibBaselines, calibMaxbends)
               ELSE [ i \in 1..Len(data) |-> Whole(data[i]) ]
        /\ capture' =
               [ after EXCEPT
                   !.straightSeen = IF fed /\ capture.step = "straight"
                                    THEN Append(capture.straightSeen, data)
                                    ELSE capture.straightSeen,
                   !.bentSeen = IF fed /\ capture.step = "bent"
                                THEN Append(capture.bentSeen, data)
                                ELSE capture.bentSeen ]
        /\ IF after.calibrated # capture.calibrated
           THEN /\ calibBaselines' = after.args[1]
                /\ calibMaxbends' = after.args[2]
           ELSE UNCHANGED << calibBaselines, calibMaxbends >>
        /\ nSamples' = nSamples + 1
        /\ UNCHANGED << isContinuousMode, isSimulating, connectedDevice, sensorBuffer,
                        isCollecting, rollingBuffer, isPredicting, stablePred,
                        letterUsed, quickDemoCallback, detectedLetters,
                        isWordFinalized, currentPrediction, predictionError,
                        isAnalyzing, predictionHistory, sinceSample, idleTimer, calls,
                        spoken, nCalls, restartTimer >>
        /\ UNCHANGED driverVars
        /\ UNCHANGED gatewayVars
        /\ UNCHANGED bleVars

\* The samples CaptureSpec lets arrive outside a capture step.
StraySamples ==
    IF capture.runs = 0 THEN nSamples
    ELSE nSamples - (Len(capture.straightSeen) + Len(capture.bentSeen))
                  - (capture.runs - 1) * 2 * CAPTURE_SAMPLES

\* The fill of the capture buffer at which the glove may disconnect.
CaptureInterruptAt == {0, 40}

\* The glove streams numbered readings while the user calibrates, resets and
\* calibrates again; the glove may disconnect while a step is under way.
CaptureNext ==
    \/ DeviceConnected
    \/ DeviceDisconnected /\ Len(capture.buffer) \in CaptureInterruptAt
    \/ StartCapture
    \/ HandleReset
    \/ /\ connectedDevice
       /\ capture.step \in { "straight", "bent" } \/ StraySamples < MaxStraySamples
       /\ CaptureSample(GloveReading(nSamples + 1))

CaptureSpec == Init /\ [][CaptureNext]_vars

\* ------------------------------------------------------ apiService.predict
\* A text the server or the transport did not provide.
NoText == ""

MissingKey  == "Missing API Key. Configure EXPO_PUBLIC_API_KEY in .env"
InvalidKey  == "Invalid API Key. Check your .env configuration"
RateLimited == "Rate limit exceeded. Please wait a moment"
Fallback    == "Prediction failed"

\* What a request can meet: a prediction, an HTTP error response with an
\* optional detail text, a transport failure without a response, or an error
\* that is not an axios error.
Statuses == {400, 401, 403, 404, 422, 429, 500, 503}
Details  == {NoText, "Model not loaded", "Invalid sensor data"}
Messages == {NoText, "Request failed", "Network Error", "timeout of 5000ms exceeded"}
Replies ==
    { [kind |-> "ok", letter |-> l, confidence |-> p] : l \in Letters, p \in Confidences }
    \cup { [kind |-> "http", status |-> st, detail |-> dt, message |-> msg] :
              st \in Statuses, dt \in Details, msg \in Messages }
    \cup { [kind |-> "transport", message |-> msg] : msg \in Messages }
    \cup { [kind |-> "other", message |-> "undefined is not an object"] }

Returned(l, p) == [kind |-> "returned", letter |-> l, confidence |-> p]
Thrown(msg) == [kind |-> "thrown", message |-> msg]

\* error.response?.data?.detail || error.message || 'Prediction failed'
FirstText(detail, message) ==
    IF detail # NoText THEN detail
    ELSE IF message # NoText THEN message
    ELSE Fallback

\* A catch block that prefers the transport message to the server's detail.
PredictOutcome_MessageFirst(reply) ==
    IF reply.kind = "ok" THEN Returned(reply.letter, reply.confidence)
    ELSE IF reply.kind = "other" THEN Thrown(reply.message)
    ELSE IF reply.kind = "transport" THEN Thrown(FirstText(NoText, reply.message))
    ELSE IF reply.status = 401 THEN Thrown(MissingKey)
    ELSE IF reply.status = 403 THEN Thrown(InvalidKey)
    ELSE IF reply.status = 429 THEN Thrown(RateLimited)
    ELSE Thrown(FirstText(reply.message, reply.detail))

\* apiService.predict: response.data on success; in the catch block an axios
\* error is mapped by its status and any other error is thrown again.
PredictOutcome(reply) ==
    IF reply.kind = "ok" THEN Returned(reply.letter, reply.confidence)
    ELSE IF reply.kind = "other" THEN Thrown(reply.message)
    ELSE IF reply.kind = "transport" THEN Thrown(FirstText(NoText, reply.message))
    ELSE IF reply.status = 401 THEN Thrown(MissingKey)
    ELSE IF reply.status = 403 THEN Thrown(InvalidKey)
    ELSE IF reply.status = 429 THEN Thrown(RateLimited)
    ELSE Thrown(FirstText(reply.detail, reply.message))

\* One request to the classifier.
Predict(reply) ==
    /\ apiReply' = reply
    /\ apiOutcome' = PredictOutcome(reply)
    /\ UNCHANGED << isContinuousMode, isSimulating, connectedDevice, sensorBuffer,
                    isCollecting, rollingBuffer, isPredicting, stablePred, letterUsed,
                    quickDemoCallback, detectedLetters, isWordFinalized,
                    currentPrediction, predictionError, isAnalyzing, predictionHistory,
                    sinceSample, idleTimer, calls, spoken, nCalls, nSamples,
                    restartTimer >>
    /\ UNCHANGED driverVars
    /\ UNCHANGED calibVars
    /\ UNCHANGED bleVars
    /\ UNCHANGED captureVars

GatewayNext == \E reply \in Replies : Predict(reply)

GatewaySpec == Init /\ [][GatewayNext]_vars

\* ------------------------------------------------------------------ claims
\* Calls whose classifier request has not been answered.
Outstanding == { c \in calls : c.phase = "api" }

\* C1: at every instant at most one classifier request is outstanding.
C1_AtMostOneOutstanding == Cardinality(Outstanding) <= 1

\* A reset happened while call c was in flight: the mode differs from the
\* mode c was dispatched in, or the device c was dispatched for is gone.
ResetSinceDispatch(c) ==
    \/ c.cont # isContinuousMode
    \/ c.dev /\ ~connectedDevice

\* C2: a result that arrives after a reset issued while its call was in
\* flight changes neither the word, the stable-letter tracker, the current
\* prediction nor the history.
C2_StaleResultDiscarded ==
    [][ \A c \in calls, l \in Letters, p \in Confidences :
            PredictionOk(c, l, p) /\ ResetSinceDispatch(c)
            => UNCHANGED << detectedLetters, stablePred, letterUsed,
                            currentPrediction, predictionHistory >> ]_vars

\* C3: in Continuous mode without a driver, a sample that leaves the window full dispatches
\* exactly one classification of the window's contents when no classification
\* is in flight, and dispatches none when one is in flight.
C3_RollingDispatch ==
    [][ /\ Sample
        /\ isContinuousMode /\ quickDemoCallback = NoCallback
        /\ Len(rollingBuffer') = WINDOW_SIZE
        => IF calls = {}
           THEN \E c \in calls' : /\ calls' = {c}
                                  /\ c.samples = rollingBuffer'
                                  /\ c.phase = "api"
           ELSE calls' = calls ]_vars

\* The letters predicted so far, oldest first.
Predicted ==
    [ i \in 1..Len(predictionHistory) |->
        predictionHistory[Len(predictionHistory) - i + 1].letter ]

\* Prediction i is the 4th of a maximal run of identical predictions.
FourthOfRun(seq, i) ==
    /\ i >= STABLE_NEEDED
    /\ \A j \in (i - STABLE_NEEDED + 1)..i : seq[j] = seq[i]
    /\ i > STABLE_NEEDED => seq[i - STABLE_NEEDED] # seq[i]

RECURSIVE RunCommits(_, _)
RunCommits(seq, n) ==
    IF n = 0
    THEN << >>
    ELSE RunCommits(seq, n - 1) \o (IF FourthOfRun(seq, n) THEN << seq[n] >> ELSE << >>)

\* C4: under the consensus policy with confident predictions the word holds
\* exactly one letter per maximal run of at least 4 identical consecutive
\* predictions, committed at the run's 4th prediction.
C4_OneCommitPerRun == detectedLetters = RunCommits(Predicted, Len(Predicted))

\* C4 witness: the predictions A,A,B,B,B,B have committed exactly one B.
C4_Witness ==
    /\ Predicted = << "A", "A", "B", "B", "B", "B" >>
    /\ detectedLetters = << "B" >>

\* The quiet period of an active Continuous session whose word is open:
\* no driver, and no sample for at least the idle threshold.
IdlePremise ==
    /\ isContinuousMode
    /\ connectedDevice
    /\ quickDemoCallback = NoCallback
    /\ detectedLetters # << >>
    /\ ~isWordFinalized
    /\ sinceSample >= IDLE_MS

\* C5: once samples have stopped for the idle threshold on an open, non-empty
\* word, the word eventually becomes finalized (or samples resume).
C5_IdleFinalizesEventually == IdlePremise ~> (isWordFinalized \/ ~IdlePremise)

\* C6: a letter committed while the word is finalized starts a new word that
\* holds only that letter, and the finalized flag becomes false.
C6_CommitAfterFinalizeStartsNewWord ==
    [][ \A c \in calls, l \in Letters, p \in Confidences :
            PredictionOk(c, l, p) /\ Commits(c, l, p) /\ isWordFinalized
            => detectedLetters' = << l >> /\ ~isWordFinalized' ]_vars

\* Everything but the idle timer itself.
AllButIdleTimer ==
    << isContinuousMode, isSimulating, connectedDevice, sensorBuffer, isCollecting,
       rollingBuffer, isPredicting, stablePred, letterUsed, quickDemoCallback,
       detectedLetters, isWordFinalized, currentPrediction, predictionError,
       isAnalyzing, predictionHistory, sinceSample, calls, spoken, nCalls, nSamples >>

\* C7: a word is emitted and flagged finalized only by an idle check on an
\* open, non-empty word at least 2.0 s after the last sample, and that leaves
\* no check pending; the flag goes back to false only when a new word starts;
\* an idle check on a finalized word, an empty word or less than 2.0 s after a
\* sample changes nothing and emits nothing; no check is pending for a
\* finalized or empty word.
C7_IdleIdempotent ==
    /\ []((isWordFinalized \/ detectedLetters = << >>) => ~idleTimer.armed)
    /\ [][ /\ (spoken' # spoken \/ (isWordFinalized' /\ ~isWordFinalized))
              => /\ sinceSample >= IDLE_MS
                 /\ ~isWordFinalized
                 /\ detectedLetters # << >>
                 /\ spoken' = Append(spoken, detectedLetters)
                 /\ isWordFinalized'
                 /\ ~idleTimer'.armed
           /\ (isWordFinalized /\ ~isWordFinalized') => Len(detectedLetters') <= 1
           /\ ( /\ IdleCheck
                /\ (isWordFinalized \/ detectedLetters = << >> \/ sinceSample < IDLE_MS) )
              => UNCHANGED AllButIdleTimer ]_vars

\* C7 witness: one word was finalized and emitted once, a new word was started,
\* and its idle check fired too early and did nothing.
C7_Witness ==
    /\ Len(spoken) = 1
    /\ isContinuousMode /\ connectedDevice
    /\ detectedLetters # << >>
    /\ ~isWordFinalized
    /\ ~idleTimer.armed

\* C8: right after a mode toggle the batch buffer and the rolling window are
\* empty, the stable-letter tracker is back to its initial value and the
\* in-flight flag is false.
C8_ModeSwitchResetsFraming ==
    [][ (SelectSingleLetter \/ SelectContinuousWords)
        => /\ sensorBuffer' = << >>
           /\ rollingBuffer' = << >>
           /\ stablePred' = [letter |-> "", count |-> 0]
           /\ ~letterUsed'
           /\ ~isPredicting' ]_vars

\* The step drops letters the word had, other than by adding to its end.
DropsLetters ==
    ~ /\ Len(detectedLetters') >= Len(detectedLetters)
      /\ SubSeq(detectedLetters', 1, Len(detectedLetters)) = detectedLetters

C10_FailureKeepsWordSuccessClearsError ==
    [][ /\ \A c \in calls :
              PredictionFailed(c)
              => /\ UNCHANGED << detectedLetters, isWordFinalized, stablePred, letterUsed >>
                 /\ predictionError' # NoError
        /\ \A c \in calls, l \in Letters, p \in Confidences :
              PredictionOk(c, l, p)
              => /\ predictionError' = NoError
                 /\ detectedLetters' = IF Commits(c, l, p)
                                       THEN AppendedWord(c, l)
                                       ELSE detectedLetters ]_vars

\* C11: when the classification of a capture the driver armed finishes, with
\* a prediction or with an error, the armed callback is invoked once and the
\* slot is empty afterwards.
C11_CallbackOncePerCapture ==
    [][ \A c \in calls :
            /\ c.phase = "api"
            /\ c.qd
            /\ quickDemoCallback = c.armed
            /\ \/ PredictionFailed(c)
               \/ \E l \in Letters, p \in Confidences : PredictionOk(c, l, p)
            => /\ notified' = Append(notified, c.armed)
               /\ quickDemoCallback' = NoCallback ]_vars

\* C12: a classification that completes after the driver gave up on its
\* letter invokes no callback and does not call an empty slot.
C12_LateCompletionInvokesNothing ==
    [][ \A c \in calls, l \in Letters, p \in Confidences :
            PredictionOk(c, l, p) /\ c.qd /\ quickDemoCallback # c.armed
            => /\ notified' = notified
               /\ quickDemoCallback' = quickDemoCallback
               /\ predictionError' = predictionError ]_vars

\* C13: while a driver is active every successful prediction is appended to
\* the word, whatever its confidence.
C13_DriverCommitsEveryPrediction ==
    [][ \A c \in calls, l \in Letters, p \in Confidences :
            PredictionOk(c, l, p) /\ c.qd /\ c.cont
            => detectedLetters' = AppendedWord(c, l) ]_vars

\* The letters of a word that belong to the supported alphabet, in order.
InAlphabet(l) == l \in PatternLetters
SupportedOf(word) == SelectSeq(word, InAlphabet)

\* C17: a request without a supported letter is answered with a message and
\* changes nothing else; otherwise the letters dispatched for the run are the
\* supported letters of the request, in their order.
C17_UnsupportedRejected ==
    /\ [][ \A d \in demos :
              SimulateWord(d) /\ SupportedOf(d.word) = << >>
              => /\ alerts' # alerts
                 /\ demos' = demos \ {d}
                 /\ UNCHANGED << detectedLetters, isWordFinalized, currentPrediction,
                                 quickDemoCallback, isRunning, isSimulating,
                                 dispatched, calls >> ]_vars
    /\ [](\A d \in demos :
              d.pc \in {"wait", "pause", "final"}
              => dispatched = SubSeq(SupportedOf(d.word), 1, d.index))

\* C18: every letter dispatched for simulated capture is one of the 15 letters
\* the simulator has a pattern for.
C18_DispatchedInAlphabet ==
    \A i \in 1..Len(dispatched) : dispatched[i] \in PatternLetters

\* The samples are consecutive arrivals, in arrival order.
Consecutive(seq) == \A i \in 1..Len(seq) : seq[i] = seq[1] + i - 1

\* A sample handled by the batch branch while collection is armed.
BatchSample == NumberedSample /\ quickDemoCallback # NoCallback /\ isCollecting

\* C14: the batch buffer holds fewer than K consecutive samples; a sample
\* that is not the K-th only joins the buffer; the K-th sample emits exactly
\* one observation, made of the K samples collected, and empties the buffer;
\* every observation emitted by batch framing has 150 or 200 samples.
C14_BatchFraming ==
    /\ [](/\ Len(sensorBuffer) < BatchTarget
          /\ Consecutive(sensorBuffer)
          /\ \A c \in calls :
                ~c.rolling => /\ Len(c.samples) \in {BATCH_CONTINUOUS, BATCH_SINGLE}
                              /\ Consecutive(c.samples))
    /\ [][ BatchSample
           => IF Len(sensorBuffer) + 1 < BatchTarget
              THEN /\ calls' = calls
                   /\ sensorBuffer' = sensorBuffer \o << nSamples' >>
              ELSE /\ sensorBuffer' = << >>
                   /\ Cardinality(calls' \ calls) = 1
                   /\ \A c \in calls' \ calls :
                         /\ c.samples = sensorBuffer \o << nSamples' >>
                         /\ Len(c.samples) = BatchTarget
                         /\ c.phase = "scheduled" ]_vars

\* C14 witness: an observation of 150 samples and one of 200 samples were
\* emitted.
C14_Witness ==
    \E c1, c2 \in calls :
        /\ ~c1.rolling /\ Len(c1.samples) = BATCH_CONTINUOUS
        /\ ~c2.rolling /\ Len(c2.samples) = BATCH_SINGLE

\* C15: the rolling window never holds more than 50 samples; it holds
\* consecutive arrivals in arrival order ending with the newest sample; each
\* sample makes it one longer until it holds 50.
C15_RollingWindowFifo ==
    /\ [](/\ Len(rollingBuffer) <= WINDOW_SIZE
          /\ Consecutive(rollingBuffer)
          /\ rollingBuffer # << >> => rollingBuffer[Len(rollingBuffer)] = nSamples)
    /\ [][ NumberedSample
           => Len(rollingBuffer') = Min(Len(rollingBuffer) + 1, WINDOW_SIZE) ]_vars

\* C15 witness: the window is full and has slid past the first ten samples.
C15_Witness ==
    /\ nSamples = 60
    /\ Len(rollingBuffer) = WINDOW_SIZE
    /\ rollingBuffer[1] = 11

\* C16: a connect event and a disconnect event each empty the rolling window
\* and the batch buffer, reset the stable-letter tracker and clear the
\* in-flight flag, and each leaves the mode and the calibration unchanged.
C16_ConnectionEventsReset ==
    [][ DeviceConnected \/ DeviceDisconnected
            => /\ rollingBuffer' = << >>
               /\ sensorBuffer' = << >>
               /\ stablePred' = [letter |-> "", count |-> 0]
               /\ letterUsed' = FALSE
               /\ isPredicting' = FALSE
               /\ UNCHANGED << isContinuousMode, calibBaselines, calibMaxbends >> ]_vars

\* C19: the prediction history never holds more than 20 entries; a successful
\* classification puts its record first and moves every kept entry one place
\* back, dropping the oldest when 20 are held; a failed one adds nothing.
C19_HistoryBounded ==
    /\ [](Len(predictionHistory) <= HISTORY_KEEP + 1)
    /\ [][ \A c \in calls :
              /\ PredictionOk(c, HistoryLetter(c), HistoryConfidence(c))
                 => /\ Len(predictionHistory') =
                           Min(Len(predictionHistory) + 1, HISTORY_KEEP + 1)
                    /\ predictionHistory'[1] =
                           [letter |-> HistoryLetter(c),
                            confidence |-> HistoryConfidence(c)]
                    /\ \A i \in 2..Len(predictionHistory') :
                           predictionHistory'[i] = predictionHistory[i - 1]
              /\ PredictionFailed(c) => predictionHistory' = predictionHistory ]_vars

\* 20 entries are held after more than 20 successful classifications, and a
\* failed call between two of them left no entry: its neighbours' records,
\* which carry the same letter, are adjacent.
C19_Witness ==
    /\ Len(predictionHistory) = HISTORY_KEEP + 1
    /\ nCalls = MaxHistoryCalls
    /\ calls = {}
    /\ \E i \in 1..HISTORY_KEEP :
           predictionHistory[i].letter = predictionHistory[i + 1].letter

C22_FramingByModeAndDriver ==
    [][ Sample =>
            IF ~isContinuousMode \/ quickDemoCallback # NoCallback
            THEN /\ rollingBuffer' = rollingBuffer
                 /\ \A c \in calls' \ calls : ~c.rolling
            ELSE /\ sensorBuffer' = sensorBuffer
                 /\ rollingBuffer' # rollingBuffer
                 /\ \A c \in calls' \ calls : c.rolling ]_vars

C25_NoDispatchAfterFailure ==
    [][ Sample /\ predictionError # NoError => nCalls' = nCalls ]_vars

\* C29: whenever the word is finalized its letters are the word that was
\* finalized and spoken.
C29_FinalizedWordIsFrozen ==
    isWordFinalized =>
        /\ spoken # << >>
        /\ detectedLetters = spoken[Len(spoken)]

\* C30: a manual stop of the simulator and the start of a new demo letter
\* each empty the batch buffer and the rolling window and clear the in-flight
\* flag.
C30_StopAndNewLetterReset ==
    [][ (SimulatorStop \/ \E d \in demos : DemoLetter(d))
            => /\ sensorBuffer' = << >>
               /\ rollingBuffer' = << >>
               /\ isPredicting' = FALSE ]_vars

\* C28: Delete removes exactly the last letter of a non-empty word, leaves an
\* empty word empty and never changes the finalized flag; Clear empties the
\* letters and sets the finalized flag to false.
C28_WordOperations ==
    [][ /\ DeleteLetter
           => /\ isWordFinalized' = isWordFinalized
              /\ IF detectedLetters = << >>
                 THEN detectedLetters' = << >>
                 ELSE detectedLetters =
                          Append(detectedLetters', detectedLetters[Len(detectedLetters)])
        /\ ClearWord
           => /\ detectedLetters' = << >>
              /\ isWordFinalized' = FALSE ]_vars

\* The last letter of the finalized word A,B has been deleted and the flag
\* is still set.
C28_Witness ==
    /\ isWordFinalized
    /\ spoken # << >>
    /\ spoken[Len(spoken)] = << "A", "B" >>
    /\ detectedLetters = << "A" >>

\* C21: apiService.predict returns no prediction for a failed request: it
\* throws 'Missing API Key' on 401, 'Invalid API Key' on 403, 'Rate limit
\* exceeded' on 429, and for every other HTTP or transport failure the
\* server's detail text if there is one, else the transport message, else
\* 'Prediction failed'.
C21_GatewayErrorMapping ==
    /\ apiReply.kind = "ok"
       => apiOutcome = [kind |-> "returned", letter |-> apiReply.letter,
                        confidence |-> apiReply.confidence]
    /\ apiReply.kind \in {"http", "transport", "other"}
       => apiOutcome.kind = "thrown"
    /\ apiReply.kind = "http" =>
          apiOutcome.message =
              CASE apiReply.status = 401 -> MissingKey
                [] apiReply.status = 403 -> InvalidKey
                [] apiReply.status = 429 -> RateLimited
                [] OTHER -> IF apiReply.detail # NoText THEN apiReply.detail
                            ELSE IF apiReply.message # NoText THEN apiReply.message
                            ELSE Fallback
    /\ apiReply.kind = "transport" =>
          apiOutcome.message =
              IF apiReply.message # NoText THEN apiReply.message ELSE Fallback

\* A 500 response with a detail text and a transport message was answered
\* with the detail text.
C21_Witness ==
    /\ apiReply.kind = "http"
    /\ apiReply.status = 500
    /\ apiReply.detail = "Model not loaded"
    /\ apiReply.message = "Request failed"
    /\ apiOutcome = [kind |-> "thrown", message |-> "Model not loaded"]


\* C26: while the driver's callback slot is non-empty the auto-restart logic
\* never re-arms collection: no step sets its 500 ms timer with the slot
\* armed, and a timer that fires with the slot armed leaves the collecting
\* flag and the batch buffer as they are.
C26_NoRestartWhileDriverArmed ==
    [][ /\ ( quickDemoCallback' # NoCallback /\ restartTimer'.armed
             => restartTimer' = restartTimer \/ restartTimer' = CountDown(restartTimer, StepMs) )
        /\ ( quickDemoCallback # NoCallback /\ RestartFires
             => isCollecting' = isCollecting /\ sensorBuffer' = sensorBuffer )
      ]_vars

\* C26 witness: the restart timer set after the first letter is due while the
\* driver has armed the second letter and its capture already holds samples.
C26_Witness ==
    /\ restartTimer.armed
    /\ restartTimer.left = 0
    /\ quickDemoCallback # NoCallback
    /\ isCollecting
    /\ sensorBuffer # << >>


\* C27: the idle check never finalizes the word while a demo driver run is in
\* progress, from the driver's first dispatched letter until it stops the
\* simulator at the end.
C27_NoFinalizeDuringDemoRun ==
    [][ IdleCheck /\ (\E d \in demos : d.index >= 1 /\ d.pc \in {"wait", "pause"})
        => UNCHANGED << isWordFinalized, spoken >> ]_vars


\* C24: after a classification completes with an error the analyzing
\* indicator is false and the in-flight flag is not left set (it is true only
\* while another rolling call is in flight), and capture can go on: the flag
\* is never set without a rolling call in flight, and the driver's next
\* letter re-arms the batch capture.
C24_ErrorPathReleasesCapture ==
    [][ /\ \A c \in calls :
              c.err /\ c \notin calls' /\ (\A c2 \in calls' : c2.id # c.id)
              => /\ ~isAnalyzing'
                 /\ isPredicting' => \E c2 \in calls' : c2.rolling
        /\ isPredicting => \E c \in calls : c.rolling
        /\ (\E d \in demos : DemoLetter(d)) => isCollecting' /\ sensorBuffer' = << >>
      ]_vars

\* C24 witness: the first letter of a demo run failed, the driver gave up on
\* it and armed the second letter, whose batch was captured and dispatched.
C24_Witness ==
    /\ predictionHistory = << >>
    /\ \E c \in calls : c.phase = "api" /\ c.qd /\ c.id = 2
    /\ \E d \in demos : d.index = 2 /\ d.pc = "wait"


\* C31: every dispatched classification call eventually completes, with a
\* prediction or with an error, and after every dispatch the in-flight flag
\* is eventually cleared.
C31_EveryCallCompletes ==
    /\ \A i \in 1..MaxLiveCalls :
           (\E c \in calls : c.id = i) ~> ~(\E c \in calls : c.id = i)
    /\ isPredicting ~> ~isPredicting


\* A fraction between 0 and 1.
InUnit(q) == q.den > 0 /\ 0 <= q.num /\ q.num <= q.den

\* C32: whatever the raw sample and the calibration, every channel that
\* normalizeSample returns lies in [0, 1], and a channel whose calibration
\* range is below 1 in absolute value comes out as exactly 0.
C32_NormalizedInUnitInterval ==
    [][ /\ << rawSample, normalized >>' # << rawSample, normalized >>
        /\ connectedDevice \/ IsRawThermistorData(rawSample')
        =>  \A i \in 1..5 :
                   /\ InUnit(normalized'[i])
                   /\ Abs(calibBaselines[i] - calibMaxbends[i]) < 1
                      => normalized'[i] = Zero ]_vars

\* C32 witness: with the default calibration a sample below every bent end
\* was clamped to 1 on all channels.
C32_Witness ==
    /\ calibBaselines = DEFAULT_BASELINES
    /\ calibMaxbends = DEFAULT_MAXBENDS
    /\ rawSample = [i \in 1..5 |-> DEFAULT_MAXBENDS[i] - 100]
    /\ normalized = [i \in 1..5 |-> One]


\* C33: the analyzing indicator is true exactly while at least one dispatched
\* classification call has not completed.
C33_AnalyzingIffCallOutstanding ==
    isAnalyzing <=> \E c \in calls : c.phase # "scheduled"


\* C34: the word changes only when a classification completes, and then by
\* one appended letter, the one the classifier returned (after the implicit
\* clear of a finalized word), or through delete-last, clear or a demo start.
C34_WordChangesOneLetterAtATime ==
    [][ detectedLetters' # detectedLetters
        => \/ /\ \E c \in calls : c.phase = "api" /\ c \notin calls'
              /\ currentPrediction' # NoPrediction
              /\ \/ detectedLetters' = Append(detectedLetters, currentPrediction'.letter)
                 \/ isWordFinalized /\ detectedLetters' = << currentPrediction'.letter >>
           \/ DeleteLetter
           \/ ClearWord
           \/ \E d \in demos : SimulateWord(d) ]_vars


\* C35: during a demo run the word never holds more letters than the driver
\* has dispatched target letters, up to the end of the run.
C35_OneLetterPerDispatchedTarget ==
    \A d \in demos :
        d.pc \in {"wait", "pause", "final"} => Len(detectedLetters) <= d.index


\* C36: at most one demo run is in its letter loop at a time, so two driver
\* loops never arm or clear the callback slot concurrently.
C36_OneDemoRunAtATime ==
    Cardinality({ d \in demos : d.pc \in {"pause", "wait"} }) <= 1


\* C37: every demo run terminates: whenever a run is under way, eventually no
\* run is left, the driver has left its running state and the simulator is
\* stopped.
C37_EveryDemoRunTerminates ==
    (demos # {}) ~> (demos = {} /\ ~isRunning /\ ~isSimulating)


\* C38: under batch framing, while the classification of an emitted batch is
\* in flight every arriving sample is dropped: the capture buffer stays empty,
\* and no second batch is emitted before that classification has completed.
C38_SamplesDroppedWhileBatchInFlight ==
    /\ (\E c \in calls : ~c.rolling) => sensorBuffer = << >>
    /\ Cardinality({ c \in calls : ~c.rolling }) <= 1


\* C39: every teardown of an established connection notifies the application
\* through onDeviceDisconnected exactly once: there are as many notifications
\* as teardowns.
C39_OneNotificationPerTeardown ==
    ble.notified = ble.teardowns


\* C40: capture proceeds idle, straight, bent, done, and a further run starts
\* from idle after a reset; onCalibrate is called once per run, at the end of
\* the bent step, after 100 samples of the straight step and 100 further
\* samples of the bent step, with the baselines averaged over the straight
\* step's samples only and the maxbends over the bent step's samples only; a
\* sample that arrives outside a capture step leaves the capture untouched.
C40_CaptureOrder ==
    [][ /\ capture'.step # capture.step
           => << capture.step, capture'.step >> \in
                 { << "idle", "straight" >>, << "straight", "bent" >>,
                   << "bent", "done" >>, << "done", "idle" >> }
        /\ capture'.calibrated # capture.calibrated
           => /\ capture'.calibrated = capture.calibrated + 1
              /\ capture'.calibrated = capture'.runs
              /\ capture.step = "bent" /\ capture'.step = "done"
              /\ Len(capture'.straightSeen) = CAPTURE_SAMPLES
              /\ Len(capture'.bentSeen) = CAPTURE_SAMPLES
              /\ calibBaselines' = Averages(capture'.straightSeen)
              /\ calibMaxbends' = Averages(capture'.bentSeen)
        /\ capture.step \in { "idle", "done" } /\ nSamples' # nSamples
           => /\ capture' = capture
              /\ UNCHANGED << calibBaselines, calibMaxbends >> ]_vars

\* C40 (witness): a second run has called onCalibrate: its baselines and
\* maxbends differ from the first run's and from each other.
C40_Witness ==
    /\ capture.calibrated = 2
    /\ capture.step = "done"
    /\ calibBaselines = Averages(capture.straightSeen)
    /\ calibMaxbends = Averages(capture.bentSeen)
    /\ calibBaselines # calibMaxbends
    /\ nSamples > 4 * CAPTURE_SAMPLES
============================================================================
